---- MODULE Spec2Model ----
(***************************************************************************)
(* Model of the ESP32-Tamagotchi firmware core: the pet life simulation    *)
(* (components/pet/pet.c), the "Jump the Wave" mini-game                   *)
(* (components/game/minigame.c) and the game/UI state machine              *)
(* (components/game/game.c).                                               *)
(***************************************************************************)
EXTENDS Integers, Sequences, FiniteSets, TLC

VARIABLES
    s_pet,      \* pet.c: static pet_state_t s_pet
    s_game,     \* minigame.c: static minigame_t s_game
    ui,         \* game.c: the static variables s_state, s_menu_selection, ...
    now,        \* the monotonic clock read by get_ms(), in milliseconds
    op,         \* the last operation called and its arguments
    ret         \* the value the last operation returned

vars == <<s_pet, s_game, ui, now, op, ret>>

----------------------------------------------------------------------------
(* Fixed-width integer arithmetic *)

\* uint8_t conversion
U8(x) == x % 256

\* uint16_t conversion
U16(x) == x % 65536

\* uint32_t quantities (the clock, age_minutes, elapsed_min, delta_ms) stay
\* below 2^31 within the bounds of the model, so uint32_t arithmetic never
\* wraps upward; a uint32_t difference that wraps below zero and is then
\* converted to the int32_t parameter of clamp_stat is the signed difference.

----------------------------------------------------------------------------
(* pet.h constants *)

PET_STAT_MIN == 0
PET_STAT_MAX == 100
PET_CRITICAL == 20
PET_OVERFEED == 90

PET_STAGE_EGG   == 0
PET_STAGE_BABY  == 1
PET_STAGE_CHILD == 2
PET_STAGE_TEEN  == 3
PET_STAGE_ADULT == 4
PET_STAGE_DEAD  == 5

PET_MOOD_HAPPY    == 0
PET_MOOD_NORMAL   == 1
PET_MOOD_SAD      == 2
PET_MOOD_HUNGRY   == 3
PET_MOOD_SLEEPY   == 4
PET_MOOD_SICK     == 5
PET_MOOD_SLEEPING == 6

PET_ACTIVITY_IDLE     == 0
PET_ACTIVITY_EATING   == 1
PET_ACTIVITY_PLAYING  == 2
PET_ACTIVITY_SLEEPING == 3
PET_ACTIVITY_SICK     == 4
PET_ACTIVITY_HAPPY    == 5
PET_ACTIVITY_HATCHING == 6

FOOD_FISH   == 0
FOOD_SHRIMP == 1

(* pet.c constants *)

HUNGER_DECAY_PER_MIN    == 2
HAPPINESS_DECAY_PER_MIN == 1
ENERGY_DECAY_PER_MIN    == 1
ENERGY_RESTORE_PER_MIN  == 5

FISH_HUNGER_GAIN      == 20
FISH_WEIGHT_GAIN      == 3
SHRIMP_HUNGER_GAIN    == 8
SHRIMP_HAPPINESS_GAIN == 10
SHRIMP_WEIGHT_GAIN    == 1
OVERFEED_PENALTY      == 5

PLAY_WIN_HAPPINESS    == 15
PLAY_WIN_ENERGY_COST  == 10
PLAY_LOSE_HAPPINESS   == 5
PLAY_LOSE_ENERGY_COST == 5
PLAY_MIN_ENERGY       == 20

MEDICINE_HEALTH_RESTORE == 40

POOP_INTERVAL_MIN           == 30
POOP_INTERVAL_MAX           == 90
POOP_HEALTH_PENALTY_PER_MIN == 1

EGG_DURATION_MIN   == 2
BABY_DURATION_MIN  == 2 * 24 * 60
CHILD_DURATION_MIN == 4 * 24 * 60
TEEN_DURATION_MIN  == 7 * 24 * 60

SICK_THRESHOLD        == 30
SICK_DECAY_MULTIPLIER == 2

\* pet_apply_time_away: the 48-hour cap, in minutes
TIME_AWAY_CAP_MIN == 48 * 60

\* pet_wake: energy below which waking costs happiness, and the cost
WAKE_EARLY_ENERGY  == 80
WAKE_EARLY_PENALTY == 10

----------------------------------------------------------------------------
(* pet.c helpers *)

\* clamp_stat without its upper bound
clamp_stat_no_ceiling(value) ==
    IF value < PET_STAT_MIN THEN PET_STAT_MIN ELSE value

clamp_stat(value) ==
    IF value < PET_STAT_MIN THEN PET_STAT_MIN
    ELSE IF value > PET_STAT_MAX THEN PET_STAT_MAX
    ELSE value

clamp_weight(value) ==
    IF value < 1 THEN 1
    ELSE IF value > 99 THEN 99
    ELSE value

\* random_range(0, 100) for the raw draw r of esp_random()
random_range(min, max, r) == min + (r % (max - min + 1))

\* update_mood with the energy rule tried before the hunger rule
update_mood_sleepy_first(p) ==
    IF p.is_sleeping THEN [p EXCEPT !.mood = PET_MOOD_SLEEPING]
    ELSE IF p.is_sick THEN [p EXCEPT !.mood = PET_MOOD_SICK]
    ELSE IF p.energy < PET_CRITICAL THEN [p EXCEPT !.mood = PET_MOOD_SLEEPY]
    ELSE IF p.hunger < PET_CRITICAL THEN [p EXCEPT !.mood = PET_MOOD_HUNGRY]
    ELSE IF p.happiness < PET_CRITICAL THEN [p EXCEPT !.mood = PET_MOOD_SAD]
    ELSE IF p.happiness >= 80 /\ p.hunger >= 60 /\ p.health >= 70
         THEN [p EXCEPT !.mood = PET_MOOD_HAPPY]
    ELSE [p EXCEPT !.mood = PET_MOOD_NORMAL]

update_mood(p) ==
    IF p.is_sleeping THEN [p EXCEPT !.mood = PET_MOOD_SLEEPING]
    ELSE IF p.is_sick THEN [p EXCEPT !.mood = PET_MOOD_SICK]
    ELSE IF p.hunger < PET_CRITICAL THEN [p EXCEPT !.mood = PET_MOOD_HUNGRY]
    ELSE IF p.energy < PET_CRITICAL THEN [p EXCEPT !.mood = PET_MOOD_SLEEPY]
    ELSE IF p.happiness < PET_CRITICAL THEN [p EXCEPT !.mood = PET_MOOD_SAD]
    ELSE IF p.happiness >= 80 /\ p.hunger >= 60 /\ p.health >= 70
         THEN [p EXCEPT !.mood = PET_MOOD_HAPPY]
    ELSE [p EXCEPT !.mood = PET_MOOD_NORMAL]

\* update_life_stage setting the stage the age calls for, whatever the
\* current stage
update_life_stage_by_age(p) ==
    IF p.stage = PET_STAGE_DEAD THEN p
    ELSE [p EXCEPT !.stage =
            IF p.age_minutes < EGG_DURATION_MIN THEN PET_STAGE_EGG
            ELSE IF p.age_minutes < BABY_DURATION_MIN THEN PET_STAGE_BABY
            ELSE IF p.age_minutes < BABY_DURATION_MIN + CHILD_DURATION_MIN
            THEN PET_STAGE_CHILD
            ELSE IF p.age_minutes
                      < BABY_DURATION_MIN + CHILD_DURATION_MIN + TEEN_DURATION_MIN
            THEN PET_STAGE_TEEN
            ELSE PET_STAGE_ADULT]

update_life_stage(p) ==
    IF p.stage = PET_STAGE_DEAD THEN p
    ELSE IF p.stage = PET_STAGE_EGG THEN
        IF p.age_minutes >= EGG_DURATION_MIN
        THEN [p EXCEPT !.stage = PET_STAGE_BABY] ELSE p
    ELSE IF p.age_minutes < BABY_DURATION_MIN THEN
        [p EXCEPT !.stage = PET_STAGE_BABY]
    ELSE IF p.age_minutes < BABY_DURATION_MIN + CHILD_DURATION_MIN THEN
        IF p.stage = PET_STAGE_BABY
        THEN [p EXCEPT !.stage = PET_STAGE_CHILD] ELSE p
    ELSE IF p.age_minutes < BABY_DURATION_MIN + CHILD_DURATION_MIN + TEEN_DURATION_MIN THEN
        IF p.stage = PET_STAGE_CHILD
        THEN [p EXCEPT !.stage = PET_STAGE_TEEN] ELSE p
    ELSE
        IF p.stage = PET_STAGE_TEEN
        THEN [p EXCEPT !.stage = PET_STAGE_ADULT] ELSE p

\* the target of calculate_health with the hunger and happiness penalties
\* taken whole, not halved and divided by three
health_target_undivided(p) ==
    100
    - (IF p.hunger < 50 THEN 50 - p.hunger ELSE 0)
    - (IF p.happiness < 40 THEN 40 - p.happiness ELSE 0)
    - p.poop_count * 10
    - (IF p.is_sick THEN 20 ELSE 0)

\* the target calculate_health pulls health towards
health_target(p) ==
    100
    - (IF p.hunger < 50 THEN (50 - p.hunger) \div 2 ELSE 0)
    - (IF p.happiness < 40 THEN (40 - p.happiness) \div 3 ELSE 0)
    - p.poop_count * 10
    - (IF p.is_sick THEN 20 ELSE 0)

\* calculate_health setting health to its target at once
calculate_health_at_once(p) ==
    IF p.health > health_target(p) \/ ~p.is_sick
    THEN [p EXCEPT !.health = clamp_stat(health_target(p))]
    ELSE p

calculate_health(p) ==
    IF p.health > health_target(p)
    THEN [p EXCEPT !.health = clamp_stat(p.health - 1)]
    ELSE IF p.health < health_target(p) /\ ~p.is_sick
    THEN [p EXCEPT !.health = clamp_stat(p.health + 1)]
    ELSE p

----------------------------------------------------------------------------
(* pet.c: initialization *)

\* pet_init: memset(&s_pet, 0, sizeof(s_pet))
pet_init_state ==
    [hunger |-> 0, happiness |-> 0, health |-> 0, energy |-> 0,
     weight |-> 0, discipline |-> 0,
     stage |-> PET_STAGE_EGG, age_minutes |-> 0, birth_time |-> 0,
     mood |-> PET_MOOD_HAPPY, activity |-> PET_ACTIVITY_IDLE,
     is_sick |-> FALSE, has_poop |-> FALSE, poop_count |-> 0,
     is_sleeping |-> FALSE, attention_needed |-> FALSE,
     last_update_ms |-> 0, last_fed_ms |-> 0, last_played_ms |-> 0,
     last_poop_ms |-> 0, sleep_start_ms |-> 0,
     games_won |-> 0, games_played |-> 0,
     times_fed |-> 0, times_played |-> 0,
     times_cleaned |-> 0, times_medicated |-> 0]

\* pet_new stopping after the memset and the timers, the starting stats and
\* the hatching activity left out
pet_new_zeroed(t) ==
    [pet_init_state EXCEPT
        !.birth_time = t \div 1000,
        !.last_update_ms = t, !.last_fed_ms = t, !.last_played_ms = t,
        !.last_poop_ms = t]

\* pet_new at clock reading t
pet_new(t) ==
    [hunger |-> 50, happiness |-> 50, health |-> 100, energy |-> 100,
     weight |-> 20, discipline |-> 0,
     stage |-> PET_STAGE_EGG, age_minutes |-> 0, birth_time |-> t \div 1000,
     mood |-> PET_MOOD_NORMAL, activity |-> PET_ACTIVITY_HATCHING,
     is_sick |-> FALSE, has_poop |-> FALSE, poop_count |-> 0,
     is_sleeping |-> FALSE, attention_needed |-> FALSE,
     last_update_ms |-> t, last_fed_ms |-> t, last_played_ms |-> t,
     last_poop_ms |-> t, sleep_start_ms |-> 0,
     games_won |-> 0, games_played |-> 0,
     times_fed |-> 0, times_played |-> 0,
     times_cleaned |-> 0, times_medicated |-> 0]

----------------------------------------------------------------------------
(* pet.c: sleep and wake (pet_wake is also called from pet_update) *)

pet_wake_ret(p) == p.is_sleeping

\* pet_wake taking the penalty whatever the energy
pet_wake_always_penalised(p) ==
    IF ~p.is_sleeping THEN p
    ELSE [p EXCEPT
            !.happiness = clamp_stat(p.happiness - WAKE_EARLY_PENALTY),
            !.is_sleeping = FALSE,
            !.sleep_start_ms = 0,
            !.activity = PET_ACTIVITY_IDLE]

\* pet_wake taking the penalty and leaving the pet asleep
pet_wake_stays_asleep(p) ==
    IF ~p.is_sleeping THEN p
    ELSE IF p.energy < WAKE_EARLY_ENERGY
    THEN [p EXCEPT !.happiness = clamp_stat(p.happiness - WAKE_EARLY_PENALTY)]
    ELSE p

pet_wake(p) ==
    IF ~p.is_sleeping THEN p
    ELSE [p EXCEPT
            !.happiness = IF p.energy < WAKE_EARLY_ENERGY
                          THEN clamp_stat(p.happiness - WAKE_EARLY_PENALTY)
                          ELSE p.happiness,
            !.is_sleeping = FALSE,
            !.sleep_start_ms = 0,
            !.activity = PET_ACTIVITY_IDLE]

pet_sleep_ret(p) ==
    ~(p.stage = PET_STAGE_DEAD \/ p.stage = PET_STAGE_EGG) /\ ~p.is_sleeping

pet_sleep(p, t) ==
    IF ~pet_sleep_ret(p) THEN p
    ELSE [p EXCEPT !.is_sleeping = TRUE,
                   !.sleep_start_ms = t,
                   !.activity = PET_ACTIVITY_SLEEPING]

pet_toggle_sleep(p, t) ==
    IF p.is_sleeping THEN pet_wake(p) ELSE pet_sleep(p, t)

----------------------------------------------------------------------------
(* pet.c: pet_update, one step of the body at a time *)

\* uint8_t hunger_decay = elapsed_min * HUNGER_DECAY_PER_MIN;
\* if (s_pet.is_sick) hunger_decay *= SICK_DECAY_MULTIPLIER;
hunger_decay(p, elapsed_min) ==
    IF p.is_sick
    THEN U8(U8(elapsed_min * HUNGER_DECAY_PER_MIN) * SICK_DECAY_MULTIPLIER)
    ELSE U8(elapsed_min * HUNGER_DECAY_PER_MIN)

\* uint8_t happy_decay = elapsed_min * HAPPINESS_DECAY_PER_MIN;
happy_decay(elapsed_min) == U8(elapsed_min * HAPPINESS_DECAY_PER_MIN)

\* hunger, happiness and energy decay, and the automatic wake
update_decay(p, elapsed_min) ==
    LET p1 == [p EXCEPT
                 !.hunger = clamp_stat(p.hunger - hunger_decay(p, elapsed_min)),
                 !.happiness = clamp_stat(p.happiness - happy_decay(elapsed_min))]
    IN  IF p1.is_sleeping
        THEN LET p2 == [p1 EXCEPT !.energy =
                          clamp_stat(p1.energy + elapsed_min * ENERGY_RESTORE_PER_MIN)]
             IN  IF p2.energy >= 100 THEN pet_wake(p2) ELSE p2
        ELSE [p1 EXCEPT !.energy =
                 clamp_stat(p1.energy - elapsed_min * ENERGY_DECAY_PER_MIN)]

\* uint32_t since_poop_min = (now - s_pet.last_poop_ms) / 60000;
since_poop_min(p, t) == (t - p.last_poop_ms) \div 60000

poop_chance(p, t) ==
    ((since_poop_min(p, t) - POOP_INTERVAL_MIN) * 100)
        \div (POOP_INTERVAL_MAX - POOP_INTERVAL_MIN)

\* poop generation for the raw random draw r
update_poop(p, t, r) ==
    IF since_poop_min(p, t) >= POOP_INTERVAL_MIN /\ ~p.is_sleeping
       /\ random_range(0, 100, r) < poop_chance(p, t)
    THEN [p EXCEPT !.has_poop = TRUE,
                   !.poop_count = U8(p.poop_count + 1),
                   !.last_poop_ms = t]
    ELSE p

update_poop_penalty(p) ==
    IF p.has_poop
    THEN [p EXCEPT !.health =
            clamp_stat(p.health - p.poop_count * POOP_HEALTH_PENALTY_PER_MIN)]
    ELSE p

\* the sickness check clearing is_sick once health is back at the threshold
update_sickness_recovers(p) ==
    IF p.health < SICK_THRESHOLD /\ ~p.is_sick
    THEN [p EXCEPT !.is_sick = TRUE]
    ELSE IF p.health >= SICK_THRESHOLD /\ p.is_sick
    THEN [p EXCEPT !.is_sick = FALSE]
    ELSE p

update_sickness(p) ==
    IF p.health < SICK_THRESHOLD /\ ~p.is_sick
    THEN [p EXCEPT !.is_sick = TRUE] ELSE p

update_death(p) ==
    IF p.health = 0
    THEN [p EXCEPT !.stage = PET_STAGE_DEAD, !.activity = PET_ACTIVITY_IDLE]
    ELSE p

attention(p) ==
    \/ p.hunger < PET_CRITICAL
    \/ p.happiness < PET_CRITICAL
    \/ p.health < PET_CRITICAL
    \/ p.energy < PET_CRITICAL
    \/ p.has_poop
    \/ p.is_sick

\* the tail of pet_update without the call of update_mood
update_attention_only(p, t) ==
    [p EXCEPT !.attention_needed = attention(p), !.last_update_ms = t]

\* the tail of pet_update, run on every call that passes the early return:
\* update_mood, attention_needed, last_update_ms
update_mood_and_attention(p, t) ==
    LET mooded == update_mood(p)
    IN  [mooded EXCEPT !.attention_needed = attention(mooded),
                       !.last_update_ms = t]

\* pet_update past its early return with update_life_stage run ahead of the
\* decay, so that the call that hatches the egg decays the stats too
pet_update_body_hatch_first(p, delta_ms, t, r) ==
    LET elapsed_min == delta_ms \div 60000
        aged == update_life_stage(
                    [p EXCEPT !.age_minutes = p.age_minutes + elapsed_min])
        stats == IF aged.stage # PET_STAGE_EGG
                 THEN update_death(update_sickness(calculate_health(
                        update_poop_penalty(update_poop(
                          update_decay(aged, elapsed_min), t, r)))))
                 ELSE aged
        body == IF elapsed_min > 0 THEN update_life_stage(stats) ELSE p
    IN  update_mood_and_attention(body, t)

\* pet_update past its early return, at clock reading t with random draw r
pet_update_body(p, delta_ms, t, r) ==
    LET elapsed_min == delta_ms \div 60000
        aged == [p EXCEPT !.age_minutes = p.age_minutes + elapsed_min]
        stats == IF aged.stage # PET_STAGE_EGG
                 THEN update_death(update_sickness(calculate_health(
                        update_poop_penalty(update_poop(
                          update_decay(aged, elapsed_min), t, r)))))
                 ELSE aged
        body == IF elapsed_min > 0 THEN update_life_stage(stats) ELSE p
    IN  update_mood_and_attention(body, t)

\* pet_update without the early return on a Dead pet
pet_update_on_dead(p, delta_ms, t, r) == pet_update_body(p, delta_ms, t, r)

\* pet_update taking the elapsed time from the clock and last_update_ms
pet_update_from_clock(p, delta_ms, t, r) ==
    IF p.stage = PET_STAGE_DEAD THEN p
    ELSE pet_update_body(p, t - p.last_update_ms, t, r)

\* pet_update(delta_ms) at clock reading t with random draw r
pet_update(p, delta_ms, t, r) ==
    IF p.stage = PET_STAGE_DEAD THEN p
    ELSE pet_update_body(p, delta_ms, t, r)

\* pet_apply_time_away without the 48-hour cap
pet_apply_time_away_uncapped(p, away_minutes, t, r) ==
    IF away_minutes = 0 THEN p
    ELSE pet_update(p, away_minutes * 60000, t, r)

\* pet_apply_time_away(away_minutes)
pet_apply_time_away(p, away_minutes, t, r) ==
    IF away_minutes = 0 THEN p
    ELSE LET capped == IF away_minutes > TIME_AWAY_CAP_MIN
                       THEN TIME_AWAY_CAP_MIN ELSE away_minutes
         IN  pet_update(p, capped * 60000, t, r)

----------------------------------------------------------------------------
(* pet.c: actions *)

pet_feed_ret(p) ==
    ~(p.stage = PET_STAGE_DEAD \/ p.stage = PET_STAGE_EGG) /\ ~p.is_sleeping

\* pet_feed testing for overfeeding after the hunger gain instead of before
pet_feed_penalty_after_gain(p, food, t) ==
    IF ~pet_feed_ret(p) THEN p
    ELSE
      LET fed == IF food = FOOD_FISH
                 THEN [p EXCEPT
                         !.hunger = clamp_stat(p.hunger + FISH_HUNGER_GAIN),
                         !.weight = clamp_weight(p.weight + FISH_WEIGHT_GAIN)]
                 ELSE [p EXCEPT
                         !.hunger = clamp_stat(p.hunger + SHRIMP_HUNGER_GAIN),
                         !.happiness = clamp_stat(p.happiness + SHRIMP_HAPPINESS_GAIN),
                         !.weight = clamp_weight(p.weight + SHRIMP_WEIGHT_GAIN)]
          pen == IF fed.hunger >= PET_OVERFEED
                 THEN [fed EXCEPT !.health = clamp_stat(fed.health - OVERFEED_PENALTY)]
                 ELSE fed
      IN  [pen EXCEPT !.activity = PET_ACTIVITY_EATING,
                      !.last_fed_ms = t,
                      !.times_fed = U16(pen.times_fed + 1)]

pet_feed(p, food, t) ==
    IF ~pet_feed_ret(p) THEN p
    ELSE
      LET overfed == p.hunger >= PET_OVERFEED
          fed == IF food = FOOD_FISH
                 THEN [p EXCEPT
                         !.hunger = clamp_stat(p.hunger + FISH_HUNGER_GAIN),
                         !.weight = clamp_weight(p.weight + FISH_WEIGHT_GAIN)]
                 ELSE [p EXCEPT
                         !.hunger = clamp_stat(p.hunger + SHRIMP_HUNGER_GAIN),
                         !.happiness = clamp_stat(p.happiness + SHRIMP_HAPPINESS_GAIN),
                         !.weight = clamp_weight(p.weight + SHRIMP_WEIGHT_GAIN)]
          pen == IF overfed
                 THEN [fed EXCEPT !.health = clamp_stat(fed.health - OVERFEED_PENALTY)]
                 ELSE fed
      IN  [pen EXCEPT !.activity = PET_ACTIVITY_EATING,
                      !.last_fed_ms = t,
                      !.times_fed = U16(pen.times_fed + 1)]

pet_play_start_ret(p) ==
    /\ ~(p.stage = PET_STAGE_DEAD \/ p.stage = PET_STAGE_EGG)
    /\ ~p.is_sleeping
    /\ ~(p.energy < PLAY_MIN_ENERGY)

\* pet_play_start marking the activity before the tests that reject the call
pet_play_start_marks_first(p, t) ==
    IF ~pet_play_start_ret(p) THEN [p EXCEPT !.activity = PET_ACTIVITY_PLAYING]
    ELSE [p EXCEPT !.activity = PET_ACTIVITY_PLAYING,
                   !.last_played_ms = t,
                   !.games_played = U16(p.games_played + 1)]

pet_play_start(p, t) ==
    IF ~pet_play_start_ret(p) THEN p
    ELSE [p EXCEPT !.activity = PET_ACTIVITY_PLAYING,
                   !.last_played_ms = t,
                   !.games_played = U16(p.games_played + 1)]

pet_play_complete(p, won) ==
    LET q == IF won
             THEN [p EXCEPT
                     !.happiness = clamp_stat(p.happiness + PLAY_WIN_HAPPINESS),
                     !.energy = clamp_stat(p.energy - PLAY_WIN_ENERGY_COST),
                     !.games_won = U16(p.games_won + 1)]
             ELSE [p EXCEPT
                     !.happiness = clamp_stat(p.happiness + PLAY_LOSE_HAPPINESS),
                     !.energy = clamp_stat(p.energy - PLAY_LOSE_ENERGY_COST)]
    IN  [q EXCEPT !.times_played = U16(q.times_played + 1),
                  !.activity = PET_ACTIVITY_IDLE]

pet_clean_ret(p) == p.has_poop

\* pet_clean removing one unit of waste per call
pet_clean_one_unit(p) ==
    IF ~p.has_poop THEN p
    ELSE [p EXCEPT !.has_poop = p.poop_count > 1,
                   !.poop_count = IF p.poop_count > 0 THEN p.poop_count - 1 ELSE 0,
                   !.times_cleaned = U16(p.times_cleaned + 1)]

pet_clean(p) ==
    IF ~p.has_poop THEN p
    ELSE [p EXCEPT !.has_poop = FALSE,
                   !.poop_count = 0,
                   !.times_cleaned = U16(p.times_cleaned + 1)]

pet_give_medicine_ret(p) == p.is_sick

pet_give_medicine(p) ==
    IF ~p.is_sick THEN p
    ELSE [p EXCEPT !.health = clamp_stat(p.health + MEDICINE_HEALTH_RESTORE),
                   !.is_sick = FALSE,
                   !.times_medicated = U16(p.times_medicated + 1)]

(* pet.c: queries *)

pet_is_alive(p) == p.stage # PET_STAGE_DEAD

\* pet_can_play asking for more than PLAY_MIN_ENERGY
pet_can_play_strict(p) ==
    /\ p.energy > PLAY_MIN_ENERGY
    /\ p.stage # PET_STAGE_DEAD
    /\ p.stage # PET_STAGE_EGG
    /\ ~p.is_sleeping

pet_can_play(p) ==
    /\ p.energy >= PLAY_MIN_ENERGY
    /\ p.stage # PET_STAGE_DEAD
    /\ p.stage # PET_STAGE_EGG
    /\ ~p.is_sleeping

\* the score with each term divided on its own
pet_get_overall_happiness_termwise(p) ==
    U8((p.hunger * 25) \div 100 + (p.happiness * 35) \div 100
       + (p.health * 25) \div 100 + (p.energy * 15) \div 100)

pet_get_overall_happiness(p) ==
    U8((p.hunger * 25 + p.happiness * 35 + p.health * 25 + p.energy * 15) \div 100)

----------------------------------------------------------------------------
(* input.h *)

BUTTON_LEFT  == 0
BUTTON_RIGHT == 1

BUTTON_EVENT_NONE       == 0
BUTTON_EVENT_PRESSED    == 1
BUTTON_EVENT_RELEASED   == 2
BUTTON_EVENT_LONG_PRESS == 3
BUTTON_EVENT_CLICK      == 4
BUTTON_EVENT_REPEAT     == 5

Buttons == {BUTTON_LEFT, BUTTON_RIGHT}

\* the events the input component delivers to its callback
ButtonEvents ==
    {BUTTON_EVENT_PRESSED, BUTTON_EVENT_RELEASED, BUTTON_EVENT_LONG_PRESS,
     BUTTON_EVENT_CLICK, BUTTON_EVENT_REPEAT}

----------------------------------------------------------------------------
(* minigame.h / minigame.c constants *)

MINIGAME_STATE_READY   == 0
MINIGAME_STATE_PLAYING == 1
MINIGAME_STATE_SUCCESS == 2
MINIGAME_STATE_FAIL    == 3
MINIGAME_STATE_RESULTS == 4

MG_SCREEN_W      == 240
DOLPHIN_X        == 60
DOLPHIN_GROUND_Y == 90
DOLPHIN_W        == 32
DOLPHIN_H        == 24
WAVE_START_X     == MG_SCREEN_W + 20
WAVE_GROUND_Y    == 95
WAVE_W           == 32
WAVE_H           == 16
JUMP_VELOCITY    == -8
GRAVITY          == 1
WAVE_SPEED_MIN   == 3
WAVE_SPEED_MAX   == 5
RESULT_DISPLAY_MS == 1500
MAX_ROUNDS       == 3

\* main.c: the period of game_task's loop, in milliseconds
GAME_TICK_MS == 33

(* minigame.c *)

\* minigame_init: memset 0, state READY, max_rounds MAX_ROUNDS
minigame_init_state ==
    [state |-> MINIGAME_STATE_READY, round |-> 0, max_rounds |-> MAX_ROUNDS,
     successes |-> 0, failures |-> 0,
     wave_x |-> 0, wave_speed |-> 0, wave_active |-> FALSE,
     dolphin_y |-> 0, dolphin_vy |-> 0, is_jumping |-> FALSE,
     start_time_ms |-> 0, result_time_ms |-> 0]

\* start_round at clock reading t, for the raw draw r of esp_random()
start_round(g, t, r) ==
    [g EXCEPT !.state = MINIGAME_STATE_PLAYING,
              !.wave_x = WAVE_START_X,
              !.wave_speed = WAVE_SPEED_MIN + (r % (WAVE_SPEED_MAX - WAVE_SPEED_MIN + 1)),
              !.wave_active = TRUE,
              !.dolphin_y = DOLPHIN_GROUND_Y,
              !.dolphin_vy = 0,
              !.is_jumping = FALSE,
              !.start_time_ms = t]

\* check_collision taking dolphin_y for the lower edge of the dolphin's box
check_collision_y_is_bottom(g) ==
    LET dolphin_left   == DOLPHIN_X
        dolphin_right  == DOLPHIN_X + DOLPHIN_W
        dolphin_bottom == g.dolphin_y - DOLPHIN_H
        wave_left      == g.wave_x
        wave_right     == g.wave_x + WAVE_W
        wave_top       == WAVE_GROUND_Y - WAVE_H
    IN  /\ dolphin_right > wave_left
        /\ dolphin_left < wave_right
        /\ dolphin_bottom > wave_top

check_collision(g) ==
    LET dolphin_left   == DOLPHIN_X
        dolphin_right  == DOLPHIN_X + DOLPHIN_W
        dolphin_bottom == g.dolphin_y + DOLPHIN_H
        wave_left      == g.wave_x
        wave_right     == g.wave_x + WAVE_W
        wave_top       == WAVE_GROUND_Y - WAVE_H
    IN  /\ dolphin_right > wave_left
        /\ dolphin_left < wave_right
        /\ dolphin_bottom > wave_top

minigame_start(t, r) ==
    start_round([minigame_init_state EXCEPT !.round = 1], t, r)

\* the dolphin physics step of minigame_update
update_dolphin(g) ==
    IF ~g.is_jumping THEN g
    ELSE LET vy == g.dolphin_vy + GRAVITY
             y  == g.dolphin_y + vy
         IN  IF y >= DOLPHIN_GROUND_Y
             THEN [g EXCEPT !.dolphin_y = DOLPHIN_GROUND_Y,
                            !.dolphin_vy = 0,
                            !.is_jumping = FALSE]
             ELSE [g EXCEPT !.dolphin_y = y, !.dolphin_vy = vy]

\* the wave step of minigame_update; wave_x is a uint32_t that stays
\* non-negative: the round ends before the wave reaches x = 0
update_wave(g, t) ==
    IF ~g.wave_active THEN g
    ELSE LET w == [g EXCEPT !.wave_x = g.wave_x - g.wave_speed]
         IN  IF check_collision(w)
             THEN [w EXCEPT !.state = MINIGAME_STATE_FAIL,
                            !.failures = U8(w.failures + 1),
                            !.result_time_ms = t]
             ELSE IF w.wave_x + WAVE_W < DOLPHIN_X
             THEN [w EXCEPT !.state = MINIGAME_STATE_SUCCESS,
                            !.successes = U8(w.successes + 1),
                            !.result_time_ms = t]
             ELSE w

\* minigame_update at clock reading t: the state it leaves
\* minigame_update counting the failure again on every tick that finds the
\* round ended in Fail
minigame_update_counts_again(g, t, r) ==
    IF g.state = MINIGAME_STATE_RESULTS THEN
        IF t - g.result_time_ms > RESULT_DISPLAY_MS
        THEN IF g.round >= g.max_rounds THEN g
             ELSE start_round([g EXCEPT !.round = U8(g.round + 1)], t, r)
        ELSE g
    ELSE IF g.state = MINIGAME_STATE_FAIL
    THEN [g EXCEPT !.failures = U8(g.failures + 1)]
    ELSE IF g.state # MINIGAME_STATE_PLAYING THEN g
    ELSE update_wave(update_dolphin(g), t)

minigame_update(g, t, r) ==
    IF g.state = MINIGAME_STATE_RESULTS THEN
        IF t - g.result_time_ms > RESULT_DISPLAY_MS
        THEN IF g.round >= g.max_rounds THEN g
             ELSE start_round([g EXCEPT !.round = U8(g.round + 1)], t, r)
        ELSE g
    ELSE IF g.state # MINIGAME_STATE_PLAYING THEN g
    ELSE update_wave(update_dolphin(g), t)

\* minigame_update at clock reading t: the value it returns
minigame_update_ret(g, t) ==
    ~(/\ g.state = MINIGAME_STATE_RESULTS
      /\ t - g.result_time_ms > RESULT_DISPLAY_MS
      /\ g.round >= g.max_rounds)

minigame_handle_input(g, button, event) ==
    IF event # BUTTON_EVENT_CLICK THEN g
    ELSE IF g.state = MINIGAME_STATE_PLAYING /\ ~g.is_jumping
    THEN [g EXCEPT !.is_jumping = TRUE, !.dolphin_vy = JUMP_VELOCITY]
    ELSE g

minigame_is_complete(g) ==
    /\ g.round >= g.max_rounds
    /\ g.state \in {MINIGAME_STATE_SUCCESS, MINIGAME_STATE_FAIL}

minigame_is_win(g) == g.successes > g.failures

----------------------------------------------------------------------------
(* game.h *)

GAME_STATE_SPLASH   == 0
GAME_STATE_MAIN     == 1
GAME_STATE_MENU     == 2
GAME_STATE_FEED     == 3
GAME_STATE_PLAY     == 4
GAME_STATE_STATS    == 5
GAME_STATE_SETTINGS == 6
GAME_STATE_SLEEP    == 7
GAME_STATE_DEATH    == 8
GAME_STATE_NEW_GAME == 9

MENU_FEED     == 0
MENU_PLAY     == 1
MENU_SLEEP    == 2
MENU_CLEAN    == 3
MENU_MEDICINE == 4
MENU_STATS    == 5
MENU_SETTINGS == 6
MENU_COUNT    == 7

FOOD_MENU_FISH   == 0
FOOD_MENU_SHRIMP == 1
FOOD_MENU_BACK   == 2
FOOD_MENU_COUNT  == 3

(* game.c constants *)

MENU_VISIBLE_ITEMS == 4

\* game_update: the animation and attention-flash periods, in milliseconds
ANIMATION_PERIOD_MS == 200
FLASH_PERIOD_MS     == 500

(* game.c: the UI together with the pet and the mini-game it drives is a   *)
(* record w = [pet, mg, ui]; every function returns the record it leaves    *)

\* game_init at clock reading t (the statics' initialisers where it sets none)
game_init_state(t) ==
    [s_state |-> GAME_STATE_SPLASH, s_state_time_ms |-> t,
     s_menu_selection |-> 0, s_menu_scroll_offset |-> 0,
     s_food_selection |-> 0,
     s_animation_frame |-> 0, s_animation_timer |-> 0,
     s_last_update_ms |-> t,
     s_attention_flash |-> FALSE, s_flash_timer |-> 0,
     s_menu_active |-> FALSE]

change_state(u, new_state, t) ==
    [u EXCEPT !.s_state = new_state,
              !.s_state_time_ms = t,
              !.s_menu_active = IF new_state = GAME_STATE_MENU THEN TRUE
                                ELSE IF new_state = GAME_STATE_MAIN THEN FALSE
                                ELSE u.s_menu_active]

\* game_new leaving the menu cursor where it was
game_new_keeps_cursor(w, t) ==
    [w EXCEPT !.pet = pet_new(t),
              !.ui = change_state([w.ui EXCEPT !.s_menu_scroll_offset = 0,
                                               !.s_menu_active = FALSE],
                                  GAME_STATE_MAIN, t)]

game_new(w, t) ==
    [w EXCEPT !.pet = pet_new(t),
              !.ui = change_state([w.ui EXCEPT !.s_menu_selection = 0,
                                               !.s_menu_scroll_offset = 0,
                                               !.s_menu_active = FALSE],
                                  GAME_STATE_MAIN, t)]

\* game_update: the animation and attention-flash timers
update_timers(u, delta_ms) ==
    LET at == u.s_animation_timer + delta_ms
        ft == u.s_flash_timer + delta_ms
    IN  [u EXCEPT
           !.s_animation_timer = IF at >= ANIMATION_PERIOD_MS THEN 0 ELSE at,
           !.s_animation_frame = IF at >= ANIMATION_PERIOD_MS
                                 THEN (u.s_animation_frame + 1) % 4
                                 ELSE u.s_animation_frame,
           !.s_flash_timer = IF ft >= FLASH_PERIOD_MS THEN 0 ELSE ft,
           !.s_attention_flash = IF ft >= FLASH_PERIOD_MS
                                 THEN ~u.s_attention_flash
                                 ELSE u.s_attention_flash]

\* game_update with the Stats screen left out of the screens that advance
\* the pet
game_update_stats_frozen(w, delta_ms, t, r) ==
    LET u == update_timers(w.ui, delta_ms)
        st == u.s_state
        w1 ==
          IF st \in {GAME_STATE_MAIN, GAME_STATE_MENU, GAME_STATE_FEED}
          THEN LET p == pet_update(w.pet, delta_ms, t, r)
               IN  [w EXCEPT !.pet = p,
                             !.ui = IF ~pet_is_alive(p)
                                    THEN change_state(u, GAME_STATE_DEATH, t)
                                    ELSE u]
          ELSE IF st = GAME_STATE_PLAY
          THEN LET g == minigame_update(w.mg, t, r)
               IN  IF ~minigame_update_ret(w.mg, t)
                   THEN [w EXCEPT !.mg = g,
                                  !.pet = pet_play_complete(w.pet, minigame_is_win(g)),
                                  !.ui = change_state(u, GAME_STATE_MAIN, t)]
                   ELSE [w EXCEPT !.mg = g, !.ui = u]
          ELSE IF st = GAME_STATE_SLEEP
          THEN LET p == pet_update(w.pet, delta_ms, t, r)
               IN  [w EXCEPT !.pet = p,
                             !.ui = IF ~p.is_sleeping
                                    THEN change_state(u, GAME_STATE_MAIN, t)
                                    ELSE u]
          ELSE [w EXCEPT !.ui = u]
    IN  [w1 EXCEPT !.ui.s_last_update_ms = t]

\* game_update keeping the Sleep screen after the pet has woken up
game_update_sleep_stays(w, delta_ms, t, r) ==
    LET u == update_timers(w.ui, delta_ms)
        st == u.s_state
        w1 ==
          IF st \in {GAME_STATE_MAIN, GAME_STATE_MENU, GAME_STATE_FEED, GAME_STATE_STATS}
          THEN LET p == pet_update(w.pet, delta_ms, t, r)
               IN  [w EXCEPT !.pet = p,
                             !.ui = IF ~pet_is_alive(p)
                                    THEN change_state(u, GAME_STATE_DEATH, t)
                                    ELSE u]
          ELSE IF st = GAME_STATE_PLAY
          THEN LET g == minigame_update(w.mg, t, r)
               IN  IF ~minigame_update_ret(w.mg, t)
                   THEN [w EXCEPT !.mg = g,
                                  !.pet = pet_play_complete(w.pet, minigame_is_win(g)),
                                  !.ui = change_state(u, GAME_STATE_MAIN, t)]
                   ELSE [w EXCEPT !.mg = g, !.ui = u]
          ELSE IF st = GAME_STATE_SLEEP
          THEN LET p == pet_update(w.pet, delta_ms, t, r)
               IN  [w EXCEPT !.pet = p,
                             !.ui = u]
          ELSE [w EXCEPT !.ui = u]
    IN  [w1 EXCEPT !.ui.s_last_update_ms = t]

\* game_update(delta_ms) at clock reading t; r is the raw draw of esp_random()
\* that pet_update or start_round consumes
game_update(w, delta_ms, t, r) ==
    LET u == update_timers(w.ui, delta_ms)
        st == u.s_state
        w1 ==
          IF st \in {GAME_STATE_MAIN, GAME_STATE_MENU, GAME_STATE_FEED, GAME_STATE_STATS}
          THEN LET p == pet_update(w.pet, delta_ms, t, r)
               IN  [w EXCEPT !.pet = p,
                             !.ui = IF ~pet_is_alive(p)
                                    THEN change_state(u, GAME_STATE_DEATH, t)
                                    ELSE u]
          ELSE IF st = GAME_STATE_PLAY
          THEN LET g == minigame_update(w.mg, t, r)
               IN  IF ~minigame_update_ret(w.mg, t)
                   THEN [w EXCEPT !.mg = g,
                                  !.pet = pet_play_complete(w.pet, minigame_is_win(g)),
                                  !.ui = change_state(u, GAME_STATE_MAIN, t)]
                   ELSE [w EXCEPT !.mg = g, !.ui = u]
          ELSE IF st = GAME_STATE_SLEEP
          THEN LET p == pet_update(w.pet, delta_ms, t, r)
               IN  [w EXCEPT !.pet = p,
                             !.ui = IF ~p.is_sleeping
                                    THEN change_state(u, GAME_STATE_MAIN, t)
                                    ELSE u]
          ELSE [w EXCEPT !.ui = u]
    IN  [w1 EXCEPT !.ui.s_last_update_ms = t]

\* render_menu_bar: the only state a render pass writes, the scroll offset
render_menu_bar(u) ==
    IF u.s_menu_selection < u.s_menu_scroll_offset
    THEN [u EXCEPT !.s_menu_scroll_offset = u.s_menu_selection]
    ELSE IF u.s_menu_selection >= u.s_menu_scroll_offset + MENU_VISIBLE_ITEMS
    THEN [u EXCEPT !.s_menu_scroll_offset =
                      u.s_menu_selection - MENU_VISIBLE_ITEMS + 1]
    ELSE u

\* game_render: render_main, and with it render_menu_bar, is called on every
\* screen but Splash, Play, Stats and Death
game_render(w) ==
    IF w.ui.s_state \in {GAME_STATE_SPLASH, GAME_STATE_PLAY,
                         GAME_STATE_STATS, GAME_STATE_DEATH}
    THEN w
    ELSE [w EXCEPT !.ui = render_menu_bar(w.ui)]

\* the Menu screen with the Sleep item leading to the Sleep screen whether or
\* not the pet fell asleep
handle_menu_sleep_always(w, button, event, t, r) ==
    LET u == w.ui
    IN  IF event = BUTTON_EVENT_CLICK THEN
            IF button = BUTTON_LEFT
            THEN [w EXCEPT !.ui.s_menu_selection = (u.s_menu_selection + 1) % MENU_COUNT]
            ELSE IF button = BUTTON_RIGHT
            THEN [w EXCEPT !.ui.s_menu_selection =
                     IF u.s_menu_selection = 0 THEN MENU_COUNT - 1
                     ELSE u.s_menu_selection - 1]
            ELSE w
        ELSE IF button = BUTTON_RIGHT /\ event = BUTTON_EVENT_LONG_PRESS THEN
            CASE u.s_menu_selection = MENU_FEED ->
                   [w EXCEPT !.ui = [change_state(u, GAME_STATE_FEED, t)
                                       EXCEPT !.s_food_selection = 0]]
              [] u.s_menu_selection = MENU_PLAY ->
                   IF pet_play_start_ret(w.pet)
                   THEN [w EXCEPT !.pet = pet_play_start(w.pet, t),
                                  !.mg = minigame_start(t, r),
                                  !.ui = change_state(u, GAME_STATE_PLAY, t)]
                   ELSE w
              [] u.s_menu_selection = MENU_SLEEP ->
                   LET p == pet_toggle_sleep(w.pet, t)
                   IN  [w EXCEPT !.pet = p,
                                 !.ui = change_state(u, GAME_STATE_SLEEP, t)]
              [] u.s_menu_selection = MENU_CLEAN ->
                   [w EXCEPT !.pet = pet_clean(w.pet),
                             !.ui = change_state(u, GAME_STATE_MAIN, t)]
              [] u.s_menu_selection = MENU_MEDICINE ->
                   [w EXCEPT !.pet = pet_give_medicine(w.pet),
                             !.ui = change_state(u, GAME_STATE_MAIN, t)]
              [] u.s_menu_selection = MENU_STATS ->
                   [w EXCEPT !.ui = change_state(u, GAME_STATE_STATS, t)]
              [] u.s_menu_selection = MENU_SETTINGS ->
                   [w EXCEPT !.ui = change_state(u, GAME_STATE_MAIN, t)]
              [] OTHER -> w
        ELSE IF button = BUTTON_LEFT /\ event = BUTTON_EVENT_LONG_PRESS
        THEN [w EXCEPT !.ui = change_state(u, GAME_STATE_MAIN, t)]
        ELSE w

\* game_handle_input: the Menu screen
handle_menu(w, button, event, t, r) ==
    LET u == w.ui
    IN  IF event = BUTTON_EVENT_CLICK THEN
            IF button = BUTTON_LEFT
            THEN [w EXCEPT !.ui.s_menu_selection = (u.s_menu_selection + 1) % MENU_COUNT]
            ELSE IF button = BUTTON_RIGHT
            THEN [w EXCEPT !.ui.s_menu_selection =
                     IF u.s_menu_selection = 0 THEN MENU_COUNT - 1
                     ELSE u.s_menu_selection - 1]
            ELSE w
        ELSE IF button = BUTTON_RIGHT /\ event = BUTTON_EVENT_LONG_PRESS THEN
            CASE u.s_menu_selection = MENU_FEED ->
                   [w EXCEPT !.ui = [change_state(u, GAME_STATE_FEED, t)
                                       EXCEPT !.s_food_selection = 0]]
              [] u.s_menu_selection = MENU_PLAY ->
                   IF pet_play_start_ret(w.pet)
                   THEN [w EXCEPT !.pet = pet_play_start(w.pet, t),
                                  !.mg = minigame_start(t, r),
                                  !.ui = change_state(u, GAME_STATE_PLAY, t)]
                   ELSE w
              [] u.s_menu_selection = MENU_SLEEP ->
                   LET p == pet_toggle_sleep(w.pet, t)
                   IN  [w EXCEPT !.pet = p,
                                 !.ui = change_state(u, IF p.is_sleeping
                                                        THEN GAME_STATE_SLEEP
                                                        ELSE GAME_STATE_MAIN, t)]
              [] u.s_menu_selection = MENU_CLEAN ->
                   [w EXCEPT !.pet = pet_clean(w.pet),
                             !.ui = change_state(u, GAME_STATE_MAIN, t)]
              [] u.s_menu_selection = MENU_MEDICINE ->
                   [w EXCEPT !.pet = pet_give_medicine(w.pet),
                             !.ui = change_state(u, GAME_STATE_MAIN, t)]
              [] u.s_menu_selection = MENU_STATS ->
                   [w EXCEPT !.ui = change_state(u, GAME_STATE_STATS, t)]
              [] u.s_menu_selection = MENU_SETTINGS ->
                   [w EXCEPT !.ui = change_state(u, GAME_STATE_MAIN, t)]
              [] OTHER -> w
        ELSE IF button = BUTTON_LEFT /\ event = BUTTON_EVENT_LONG_PRESS
        THEN [w EXCEPT !.ui = change_state(u, GAME_STATE_MAIN, t)]
        ELSE w

\* the Feed screen with the forward step taken without the modulus
handle_feed_no_wrap(w, button, event, t) ==
    LET u == w.ui
    IN  IF event = BUTTON_EVENT_CLICK THEN
            IF button = BUTTON_LEFT
            THEN [w EXCEPT !.ui.s_food_selection =
                     u.s_food_selection + 1]
            ELSE IF button = BUTTON_RIGHT
            THEN [w EXCEPT !.ui.s_food_selection =
                     IF u.s_food_selection = 0 THEN FOOD_MENU_COUNT - 1
                     ELSE u.s_food_selection - 1]
            ELSE w
        ELSE IF button = BUTTON_RIGHT /\ event = BUTTON_EVENT_LONG_PRESS THEN
            CASE u.s_food_selection = FOOD_MENU_FISH ->
                   [w EXCEPT !.pet = pet_feed(w.pet, FOOD_FISH, t),
                             !.ui = change_state(u, GAME_STATE_MAIN, t)]
              [] u.s_food_selection = FOOD_MENU_SHRIMP ->
                   [w EXCEPT !.pet = pet_feed(w.pet, FOOD_SHRIMP, t),
                             !.ui = change_state(u, GAME_STATE_MAIN, t)]
              [] u.s_food_selection = FOOD_MENU_BACK ->
                   [w EXCEPT !.ui = change_state(u, GAME_STATE_MENU, t)]
              [] OTHER -> w
        ELSE IF button = BUTTON_LEFT /\ event = BUTTON_EVENT_LONG_PRESS
        THEN [w EXCEPT !.ui = change_state(u, GAME_STATE_MENU, t)]
        ELSE w

\* game_handle_input: the Feed screen
handle_feed(w, button, event, t) ==
    LET u == w.ui
    IN  IF event = BUTTON_EVENT_CLICK THEN
            IF button = BUTTON_LEFT
            THEN [w EXCEPT !.ui.s_food_selection =
                     (u.s_food_selection + 1) % FOOD_MENU_COUNT]
            ELSE IF button = BUTTON_RIGHT
            THEN [w EXCEPT !.ui.s_food_selection =
                     IF u.s_food_selection = 0 THEN FOOD_MENU_COUNT - 1
                     ELSE u.s_food_selection - 1]
            ELSE w
        ELSE IF button = BUTTON_RIGHT /\ event = BUTTON_EVENT_LONG_PRESS THEN
            CASE u.s_food_selection = FOOD_MENU_FISH ->
                   [w EXCEPT !.pet = pet_feed(w.pet, FOOD_FISH, t),
                             !.ui = change_state(u, GAME_STATE_MAIN, t)]
              [] u.s_food_selection = FOOD_MENU_SHRIMP ->
                   [w EXCEPT !.pet = pet_feed(w.pet, FOOD_SHRIMP, t),
                             !.ui = change_state(u, GAME_STATE_MAIN, t)]
              [] u.s_food_selection = FOOD_MENU_BACK ->
                   [w EXCEPT !.ui = change_state(u, GAME_STATE_MENU, t)]
              [] OTHER -> w
        ELSE IF button = BUTTON_LEFT /\ event = BUTTON_EVENT_LONG_PRESS
        THEN [w EXCEPT !.ui = change_state(u, GAME_STATE_MENU, t)]
        ELSE w

\* the Play screen with a long press of the left button leading back to Main
handle_play_with_back(w, button, event, t) ==
    IF button = BUTTON_LEFT /\ event = BUTTON_EVENT_LONG_PRESS
    THEN [w EXCEPT !.ui = change_state(w.ui, GAME_STATE_MAIN, t)]
    ELSE [w EXCEPT !.mg = minigame_handle_input(w.mg, button, event)]

\* game_handle_input: the Play screen
handle_play(w, button, event, t) ==
    [w EXCEPT !.mg = minigame_handle_input(w.mg, button, event)]

\* game_handle_input without the test that keeps clicks and long presses only
game_handle_input_unfiltered(w, button, event, t, r) ==
    LET u == w.ui
        st == u.s_state
    IN  IF st = GAME_STATE_SPLASH THEN game_new(w, t)
        ELSE IF st = GAME_STATE_MAIN THEN
            IF button = BUTTON_RIGHT
            THEN [w EXCEPT !.ui = change_state(u, GAME_STATE_MENU, t)]
            ELSE w
        ELSE IF st = GAME_STATE_MENU THEN handle_menu(w, button, event, t, r)
        ELSE IF st = GAME_STATE_FEED THEN handle_feed(w, button, event, t)
        ELSE IF st = GAME_STATE_PLAY THEN handle_play(w, button, event, t)
        ELSE IF st = GAME_STATE_STATS
        THEN [w EXCEPT !.ui = change_state(u, GAME_STATE_MAIN, t)]
        ELSE IF st = GAME_STATE_SLEEP THEN
            IF button = BUTTON_RIGHT
            THEN [w EXCEPT !.pet = pet_wake(w.pet),
                           !.ui = change_state(u, GAME_STATE_MAIN, t)]
            ELSE w
        ELSE IF st = GAME_STATE_DEATH THEN game_new(w, t)
        ELSE [w EXCEPT !.ui = change_state(u, GAME_STATE_MAIN, t)]

\* game_handle_input(button, event) at clock reading t
game_handle_input(w, button, event, t, r) ==
    LET u == w.ui
        st == u.s_state
    IN  IF event # BUTTON_EVENT_CLICK /\ event # BUTTON_EVENT_LONG_PRESS THEN w
        ELSE IF st = GAME_STATE_SPLASH THEN game_new(w, t)
        ELSE IF st = GAME_STATE_MAIN THEN
            IF button = BUTTON_RIGHT
            THEN [w EXCEPT !.ui = change_state(u, GAME_STATE_MENU, t)]
            ELSE w
        ELSE IF st = GAME_STATE_MENU THEN handle_menu(w, button, event, t, r)
        ELSE IF st = GAME_STATE_FEED THEN handle_feed(w, button, event, t)
        ELSE IF st = GAME_STATE_PLAY THEN handle_play(w, button, event, t)
        ELSE IF st = GAME_STATE_STATS
        THEN [w EXCEPT !.ui = change_state(u, GAME_STATE_MAIN, t)]
        ELSE IF st = GAME_STATE_SLEEP THEN
            IF button = BUTTON_RIGHT
            THEN [w EXCEPT !.pet = pet_wake(w.pet),
                           !.ui = change_state(u, GAME_STATE_MAIN, t)]
            ELSE w
        ELSE IF st = GAME_STATE_DEATH THEN game_new(w, t)
        ELSE [w EXCEPT !.ui = change_state(u, GAME_STATE_MAIN, t)]

----------------------------------------------------------------------------
(* Bounds of the model *)

\* the clock reading at which the first pet is created
BootMs == 1000

\* Spec: a pet is advanced by whole minutes only while younger than MaxAgeMin
MaxAgeMin == 4

\* Spec: the six counters together are capped at MaxCount
MaxCount == 3

\* SpecLife: the same two caps for a pet followed minute by minute to its
\* death, while the clock advances MaxLifeClockSteps times by ClockStepMs
MaxLifeAgeMin     == 40
MaxLifeCount      == 2
MaxLifeClockSteps == 3
ClockStepMs       == 60 * 60000

\* SpecFeed: the same two caps for a pet that is fed over and over
MaxFeedAgeMin == 5
MaxFeedCount  == 23

\* SpecGrow: the same caps for a pet advanced by BABY_DURATION_MIN or by the
\* whole span up to the Adult threshold at once, while the clock advances
\* MaxGrowClockSteps times by ClockStepMs
MaxGrowAgeMin     == 100000
MaxGrowCount      == 1
MaxGrowClockSteps == 3
GrowDeltaMs ==
    {BABY_DURATION_MIN * 60000,
     (BABY_DURATION_MIN + CHILD_DURATION_MIN + TEEN_DURATION_MIN) * 60000}

\* SpecRenew: a pet that hatches, is fed and played with, and is replaced by
\* a new one at a later reading of the clock
MaxRenewAgeMin     == 4
MaxRenewCount      == 3
MaxRenewClockSteps == 2
RenewDeltaMs == {EGG_DURATION_MIN * 60000}

\* SpecMG: the mini-game is ticked MaxMgTicks times, GAME_TICK_MS apart
MaxMgTicks == 84

\* elapsed durations handed to pet_update, in milliseconds
DeltaMs == {0, 900, 60000, 128 * 60000}

\* durations handed to pet_apply_time_away, in minutes
AwayMinutes == {0, 2880, 2881, 10000}

\* raw draws of esp_random()
RandomDraws == {0, 100}

\* raw draws of esp_random() in start_round: one for each wave speed
SpeedDraws == {0, 1, 2}

\* SpecUI: loop iterations of GAME_TICK_MS within one long iteration, the
\* length of a long (stalled) iteration, and the number of long iterations
MaxUiTicks == 2
UiLongFrameMs == 120000
MaxUiLongFrames == 1
MaxUiCount == 1

\* SpecNeglect: loop iterations NeglectFrameMs apart, MaxNeglectFrames of
\* them; button events arrive during the first MaxNeglectInputFrames
\* iterations and on the Death screen
NeglectFrameMs == 60 * 60000
MaxNeglectFrames == 14
MaxNeglectInputFrames == 2
MaxNeglectCount == 0

\* SpecWrap: a pet fed until times_fed, a uint16_t, has taken every value
MaxWrapAgeMin == 2
MaxWrapCount == 65536

\* SpecWaste: a pet advanced a minute at a time while the clock runs on by
\* WasteStepsMin minutes at a time, up to MaxWasteClockMin minutes after boot
MaxWasteAgeMin   == 4
MaxWasteClockMin == 91
WasteStepsMin    == {29, 30, 31}

\* SpecVigil: a pet left alone through at most MaxVigilHourFrames loop
\* iterations an hour apart; once its health is down to VigilHealth, button
\* events arrive again and the iterations are a minute apart, at most
\* MaxVigilMinuteFrames of them after each hour
VigilHealth          == 12
MaxVigilHourFrames   == 14
MaxVigilMinuteFrames == 1
MaxVigilCount        == 0

\* SpecStarve: a pet advanced by a minute or an hour at a time up to the age
\* MaxStarveAgeMin, fed MaxStarveCount times at most, the clock moving on
\* MaxStarveClockSteps times by StarveClockStepMin minutes
MaxStarveAgeMin     == 165
MaxStarveCount      == 1
MaxStarveClockSteps == 1
StarveClockStepMin  == 30

\* SpecScore: the values each of the four stats is drawn from
ScoreSamples == {0, 1, 3, 4, 19, 20, 33, 50, 67, 99, 100}

counters(p) ==
    p.games_won + p.games_played + p.times_fed + p.times_played
    + p.times_cleaned + p.times_medicated

----------------------------------------------------------------------------
(* The operations of the pet API as actions *)

Init ==
    /\ s_pet = pet_new(BootMs)
    /\ s_game = minigame_init_state
    /\ ui = game_init_state(BootMs)
    /\ now = BootMs
    /\ op = [name |-> "pet_new", arg |-> 0]
    /\ ret = TRUE

\* time passes between two calls
TimePassesUpTo(steps) ==
    /\ now + ClockStepMs <= BootMs + steps * ClockStepMs
    /\ now' = now + ClockStepMs
    /\ op' = [name |-> "time", arg |-> ClockStepMs]
    /\ UNCHANGED <<s_pet, s_game, ui, ret>>

PetNew ==
    /\ s_pet' = pet_new(now)
    /\ op' = [name |-> "pet_new", arg |-> 0]
    /\ ret' = TRUE
    /\ UNCHANGED <<s_game, ui, now>>

Update(deltas, maxAge) ==
    \E d \in deltas, r \in RandomDraws :
        /\ d < 60000 \/ s_pet.age_minutes < maxAge
        /\ s_pet' = pet_update(s_pet, d, now, r)
        /\ op' = [name |-> "pet_update", arg |-> d]
        /\ ret' = TRUE
        /\ UNCHANGED <<s_game, ui, now>>

ApplyTimeAway(maxAge) ==
    \E a \in AwayMinutes, r \in RandomDraws :
        /\ a = 0 \/ s_pet.age_minutes < maxAge
        /\ s_pet' = pet_apply_time_away(s_pet, a, now, r)
        /\ op' = [name |-> "pet_apply_time_away", arg |-> a]
        /\ ret' = TRUE
        /\ UNCHANGED <<s_game, ui, now>>

Feed(cap) ==
    \E food \in {FOOD_FISH, FOOD_SHRIMP} :
        /\ counters(s_pet) < cap
        /\ s_pet' = pet_feed(s_pet, food, now)
        /\ op' = [name |-> "pet_feed", arg |-> food]
        /\ ret' = pet_feed_ret(s_pet)
        /\ UNCHANGED <<s_game, ui, now>>

PlayStart(cap) ==
    /\ counters(s_pet) < cap
    /\ s_pet' = pet_play_start(s_pet, now)
    /\ op' = [name |-> "pet_play_start", arg |-> 0]
    /\ ret' = pet_play_start_ret(s_pet)
    /\ UNCHANGED <<s_game, ui, now>>

PlayComplete(cap) ==
    \E won \in BOOLEAN :
        /\ counters(s_pet) + (IF won THEN 2 ELSE 1) <= cap
        /\ s_pet' = pet_play_complete(s_pet, won)
        /\ op' = [name |-> "pet_play_complete", arg |-> IF won THEN 1 ELSE 0]
        /\ ret' = TRUE
        /\ UNCHANGED <<s_game, ui, now>>

PetSleep ==
    /\ s_pet' = pet_sleep(s_pet, now)
    /\ op' = [name |-> "pet_sleep", arg |-> 0]
    /\ ret' = pet_sleep_ret(s_pet)
    /\ UNCHANGED <<s_game, ui, now>>

PetWake ==
    /\ s_pet' = pet_wake(s_pet)
    /\ op' = [name |-> "pet_wake", arg |-> 0]
    /\ ret' = pet_wake_ret(s_pet)
    /\ UNCHANGED <<s_game, ui, now>>

PetToggleSleep ==
    /\ s_pet' = pet_toggle_sleep(s_pet, now)
    /\ op' = [name |-> "pet_toggle_sleep", arg |-> 0]
    /\ ret' = TRUE
    /\ UNCHANGED <<s_game, ui, now>>

Clean(cap) ==
    /\ counters(s_pet) < cap
    /\ s_pet' = pet_clean(s_pet)
    /\ op' = [name |-> "pet_clean", arg |-> 0]
    /\ ret' = pet_clean_ret(s_pet)
    /\ UNCHANGED <<s_game, ui, now>>

GiveMedicine(cap) ==
    /\ counters(s_pet) < cap
    /\ s_pet' = pet_give_medicine(s_pet)
    /\ op' = [name |-> "pet_give_medicine", arg |-> 0]
    /\ ret' = pet_give_medicine_ret(s_pet)
    /\ UNCHANGED <<s_game, ui, now>>

----------------------------------------------------------------------------
(* Spec: the pet API called directly, every operation in any order, within *)
(* one reading of the clock                                                *)

PetUpdate        == Update(DeltaMs, MaxAgeMin)
PetApplyTimeAway == ApplyTimeAway(MaxAgeMin)
PetFeed          == Feed(MaxCount)
PetPlayStart     == PlayStart(MaxCount)
PetPlayComplete  == PlayComplete(MaxCount)
PetClean         == Clean(MaxCount)
PetGiveMedicine  == GiveMedicine(MaxCount)

Next ==
    \/ PetNew
    \/ PetUpdate
    \/ PetApplyTimeAway
    \/ PetFeed
    \/ PetPlayStart
    \/ PetPlayComplete
    \/ PetSleep
    \/ PetWake
    \/ PetToggleSleep
    \/ PetClean
    \/ PetGiveMedicine

Spec == Init /\ [][Next]_vars

----------------------------------------------------------------------------
(* SpecRenew: pet_new called again after the pet has lived and the clock   *)
(* has moved on                                                            *)

RenewTimePasses   == TimePassesUpTo(MaxRenewClockSteps)
RenewUpdate       == Update(RenewDeltaMs, MaxRenewAgeMin)
RenewFeed         == Feed(MaxRenewCount)
RenewPlayStart    == PlayStart(MaxRenewCount)
RenewPlayComplete == PlayComplete(MaxRenewCount)
RenewPetSleep     == PetSleep
RenewPetNew       == PetNew

NextRenew ==
    \/ RenewTimePasses
    \/ RenewUpdate
    \/ RenewFeed
    \/ RenewPlayStart
    \/ RenewPlayComplete
    \/ RenewPetSleep
    \/ RenewPetNew

SpecRenew == Init /\ [][NextRenew]_vars

----------------------------------------------------------------------------
(* SpecWrap: a hatched pet fed again and again within one reading of the   *)
(* clock                                                                   *)

WrapUpdate == Update({EGG_DURATION_MIN * 60000}, MaxWrapAgeMin)
WrapFeed   == Feed(MaxWrapCount)

NextWrap ==
    \/ WrapUpdate
    \/ WrapFeed

SpecWrap == Init /\ [][NextWrap]_vars

----------------------------------------------------------------------------
(* SpecScore: pet_get_overall_happiness called on a pet with any stats     *)

InitScore ==
    /\ s_pet \in {[pet_new(BootMs) EXCEPT !.hunger = hu, !.happiness = ha,
                                          !.health = he, !.energy = en] :
                     hu \in ScoreSamples, ha \in ScoreSamples,
                     he \in ScoreSamples, en \in ScoreSamples}
    /\ s_game = minigame_init_state
    /\ ui = game_init_state(BootMs)
    /\ now = BootMs
    /\ op = [name |-> "pet_new", arg |-> 0]
    /\ ret = TRUE

\* the query; its result is recorded in op.arg
GetOverallHappiness ==
    /\ op.name # "pet_get_overall_happiness"
    /\ op' = [name |-> "pet_get_overall_happiness",
              arg |-> pet_get_overall_happiness(s_pet)]
    /\ UNCHANGED <<s_pet, s_game, ui, now, ret>>

NextScore == GetOverallHappiness

SpecScore == InitScore /\ [][NextScore]_vars

----------------------------------------------------------------------------
(* SpecWaste: the waste draw of pet_update at every distance from the last *)
(* waste event, on both sides of POOP_INTERVAL_MIN and POOP_INTERVAL_MAX   *)

WasteTimePasses ==
    \E m \in WasteStepsMin :
        /\ now + m * 60000 <= BootMs + MaxWasteClockMin * 60000
        /\ now' = now + m * 60000
        /\ op' = [name |-> "time", arg |-> m * 60000]
        /\ UNCHANGED <<s_pet, s_game, ui, ret>>

WasteUpdate == Update({60000}, MaxWasteAgeMin)

NextWaste ==
    \/ WasteTimePasses
    \/ WasteUpdate
    \/ PetSleep
    \/ PetWake

SpecWaste == Init /\ [][NextWaste]_vars

----------------------------------------------------------------------------
(* SpecLife: one pet advanced a minute at a time, through waste, sickness  *)
(* and death, with the care actions that touch health                      *)

LifeTimePasses   == TimePassesUpTo(MaxLifeClockSteps)
LifeUpdate       == Update({0, 900, 60000}, MaxLifeAgeMin)
LifeClean        == Clean(MaxLifeCount)
LifeGiveMedicine == GiveMedicine(MaxLifeCount)

NextLife ==
    \/ LifeTimePasses
    \/ LifeUpdate
    \/ LifeClean
    \/ LifeGiveMedicine

SpecLife == Init /\ [][NextLife]_vars

----------------------------------------------------------------------------
(* SpecFeed: one pet fed again and again between one-minute advances       *)

FeedUpdate == Update({60000}, MaxFeedAgeMin)
FeedFeed   == Feed(MaxFeedCount)

NextFeed ==
    \/ FeedUpdate
    \/ FeedFeed

SpecFeed == Init /\ [][NextFeed]_vars

----------------------------------------------------------------------------
(* SpecGrow: one pet advanced by days at a time, through every life stage   *)
(* and, with waste piling up hour after hour, to its death                  *)

GrowTimePasses   == TimePassesUpTo(MaxGrowClockSteps)
GrowUpdate       == Update(GrowDeltaMs, MaxGrowAgeMin)
GrowClean        == Clean(MaxGrowCount)
GrowGiveMedicine == GiveMedicine(MaxGrowCount)

NextGrow ==
    \/ GrowTimePasses
    \/ GrowUpdate
    \/ GrowClean
    \/ GrowGiveMedicine

SpecGrow == Init /\ [][NextGrow]_vars

----------------------------------------------------------------------------
(* SpecMG: the mini-game alone, started, ticked by the game loop and fed    *)
(* button events                                                           *)

\* minigame_start, called when no round is being played
MgStart ==
    \E r \in SpeedDraws :
        /\ s_game.state # MINIGAME_STATE_PLAYING
        /\ s_game' = minigame_start(now, r)
        /\ op' = [name |-> "minigame_start", arg |-> r]
        /\ ret' = TRUE
        /\ UNCHANGED <<s_pet, ui, now>>

\* one iteration of the game loop: GAME_TICK_MS later, minigame_update
MgUpdate ==
    \E r \in SpeedDraws :
        /\ s_game.state # MINIGAME_STATE_READY
        /\ now + GAME_TICK_MS <= BootMs + MaxMgTicks * GAME_TICK_MS
        /\ now' = now + GAME_TICK_MS
        /\ s_game' = minigame_update(s_game, now', r)
        /\ op' = [name |-> "minigame_update", arg |-> GAME_TICK_MS]
        /\ ret' = minigame_update_ret(s_game, now')
        /\ UNCHANGED <<s_pet, ui>>

\* a button event delivered to minigame_handle_input
MgInput ==
    \E button \in Buttons, event \in ButtonEvents :
        /\ s_game.state # MINIGAME_STATE_READY
        /\ s_game' = minigame_handle_input(s_game, button, event)
        /\ op' = [name |-> "minigame_handle_input", arg |-> event]
        /\ ret' = TRUE
        /\ UNCHANGED <<s_pet, ui, now>>

NextMG ==
    \/ MgStart
    \/ MgUpdate
    \/ MgInput

SpecMG == Init /\ [][NextMG]_vars

----------------------------------------------------------------------------

----------------------------------------------------------------------------
(* The game screens: main.c's game_task loop and the button callback       *)

\* game.c's view of the three modules' statics
world == [pet |-> s_pet, mg |-> s_game, ui |-> ui]

\* app_main: pet_init and game_init have run, nothing else has
InitUI ==
    /\ s_pet = pet_init_state
    /\ s_game = minigame_init_state
    /\ ui = game_init_state(BootMs)
    /\ now = BootMs
    /\ op = [name |-> "game_init", arg |-> 0]
    /\ ret = TRUE

\* whether a loop iteration of d milliseconds fits the bounds on the clock
FrameFits(d) ==
    IF d = GAME_TICK_MS
    THEN ((now - BootMs) % UiLongFrameMs) + d <= MaxUiTicks * GAME_TICK_MS
    ELSE (now - BootMs) \div UiLongFrameMs < MaxUiLongFrames

\* one iteration of game_task's loop, d milliseconds after the last:
\* game_update(d), then game_render
GameFrame ==
    \E d \in {GAME_TICK_MS, UiLongFrameMs} :
      \E r \in (IF ui.s_state = GAME_STATE_PLAY THEN SpeedDraws ELSE RandomDraws) :
        LET w == game_render(game_update(world, d, now + d, r))
        IN  /\ FrameFits(d)
            /\ now' = now + d
            /\ s_pet' = w.pet
            /\ s_game' = w.mg
            /\ ui' = w.ui
            /\ op' = [name |-> "game_update", arg |-> d]
            /\ ret' = TRUE

\* a button event delivered to game_handle_input
GameInput ==
    \E button \in Buttons, event \in ButtonEvents, r \in SpeedDraws :
        LET w == game_handle_input(world, button, event, now, r)
        IN  /\ counters(w.pet) <= MaxUiCount
            /\ s_pet' = w.pet
            /\ s_game' = w.mg
            /\ ui' = w.ui
            /\ op' = [name |-> "game_handle_input", arg |-> event]
            /\ ret' = TRUE
            /\ UNCHANGED now

NextUI ==
    \/ GameFrame
    \/ GameInput

SpecUI == InitUI /\ [][NextUI]_vars

----------------------------------------------------------------------------
(* SpecNeglect: the game loop running an hour per iteration on a pet left  *)
(* alone on one of the screens, until it wakes, dies and is replaced       *)

\* one iteration of game_task's loop, NeglectFrameMs after the last
NeglectFrame ==
    \E r \in RandomDraws :
        LET d == NeglectFrameMs
            w == game_render(game_update(world, d, now + d, r))
        IN  /\ now + d <= BootMs + MaxNeglectFrames * d
            /\ now' = now + d
            /\ s_pet' = w.pet
            /\ s_game' = w.mg
            /\ ui' = w.ui
            /\ op' = [name |-> "game_update", arg |-> d]
            /\ ret' = TRUE

\* a button event delivered to game_handle_input
NeglectInput ==
    \E button \in Buttons, event \in ButtonEvents, r \in SpeedDraws :
        LET w == game_handle_input(world, button, event, now, r)
        IN  /\ \/ now < BootMs + MaxNeglectInputFrames * NeglectFrameMs
               \/ ui.s_state = GAME_STATE_DEATH
            /\ counters(w.pet) <= MaxNeglectCount
            /\ s_pet' = w.pet
            /\ s_game' = w.mg
            /\ ui' = w.ui
            /\ op' = [name |-> "game_handle_input", arg |-> event]
            /\ ret' = TRUE
            /\ UNCHANGED now

NextNeglect ==
    \/ NeglectFrame
    \/ NeglectInput

SpecNeglect == InitUI /\ [][NextNeglect]_vars

----------------------------------------------------------------------------
(* SpecVigil: the game loop on a pet that is neglected until it is about   *)
(* to die and then taken to any of the screens, the Sleep screen included  *)

\* whether the pet is about to die
NearDeath ==
    /\ s_pet.stage \notin {PET_STAGE_EGG, PET_STAGE_DEAD}
    /\ s_pet.health <= VigilHealth

\* one iteration of game_task's loop, an hour after the last, or a minute
\* after the last once the pet is about to die or dead
VigilFrame ==
    \E r \in RandomDraws :
        LET d == IF NearDeath \/ s_pet.stage = PET_STAGE_DEAD
                 THEN 60000 ELSE NeglectFrameMs
            w == game_render(game_update(world, d, now + d, r))
        IN  /\ IF d = 60000
               THEN (now - BootMs) % NeglectFrameMs
                        < MaxVigilMinuteFrames * 60000
               ELSE now + d <= BootMs + MaxVigilHourFrames * d
            /\ now' = now + d
            /\ s_pet' = w.pet
            /\ s_game' = w.mg
            /\ ui' = w.ui
            /\ op' = [name |-> "game_update", arg |-> d]
            /\ ret' = TRUE

\* a button event delivered to game_handle_input, on the splash screen or
\* once the pet is about to die or dead
VigilInput ==
    \E button \in Buttons, event \in ButtonEvents, r \in SpeedDraws :
        LET w == game_handle_input(world, button, event, now, r)
        IN  /\ \/ ui.s_state = GAME_STATE_SPLASH
               \/ NearDeath
               \/ s_pet.stage = PET_STAGE_DEAD
            /\ w.ui.s_state # GAME_STATE_PLAY
            /\ counters(w.pet) <= MaxVigilCount
            /\ s_pet' = w.pet
            /\ s_game' = w.mg
            /\ ui' = w.ui
            /\ op' = [name |-> "game_handle_input", arg |-> event]
            /\ ret' = TRUE
            /\ UNCHANGED now

NextVigil ==
    \/ VigilFrame
    \/ VigilInput

SpecVigil == InitUI /\ [][NextVigil]_vars

----------------------------------------------------------------------------
(* SpecStarve: the runs of a pet that goes hungry and unhappy, in which no *)
(* waste event occurs and no feeding is penalised as overfeeding           *)

StarveTimePasses ==
    /\ now + StarveClockStepMin * 60000
         <= BootMs + MaxStarveClockSteps * StarveClockStepMin * 60000
    /\ now' = now + StarveClockStepMin * 60000
    /\ op' = [name |-> "time", arg |-> StarveClockStepMin * 60000]
    /\ UNCHANGED <<s_pet, s_game, ui, ret>>

\* pet_update, in the runs where it generates no waste
StarveUpdate ==
    /\ Update({60000, 60 * 60000}, MaxStarveAgeMin)
    /\ s_pet'.poop_count = s_pet.poop_count

\* pet_feed, in the runs where the pet is not overfed
StarveFeed ==
    /\ s_pet.hunger < PET_OVERFEED
    /\ Feed(MaxStarveCount)

NextStarve ==
    \/ StarveTimePasses
    \/ StarveUpdate
    \/ StarveFeed

SpecStarve == Init /\ [][NextStarve]_vars

----------------------------------------------------------------------------
(* save_manager.c and app_main's load of a saved game                      *)

SAVE_VERSION == 1

\* save_manager_save: the save_data_t packed from the pet p
save_data(p) ==
    [version |-> SAVE_VERSION,
     hunger |-> p.hunger, happiness |-> p.happiness, health |-> p.health,
     energy |-> p.energy, weight |-> p.weight, discipline |-> p.discipline,
     stage |-> p.stage, age_minutes |-> p.age_minutes,
     is_sick |-> IF p.is_sick THEN 1 ELSE 0,
     poop_count |-> p.poop_count,
     is_sleeping |-> IF p.is_sleeping THEN 1 ELSE 0,
     games_won |-> p.games_won, games_played |-> p.games_played,
     times_fed |-> p.times_fed, times_played |-> p.times_played,
     times_cleaned |-> p.times_cleaned, times_medicated |-> p.times_medicated]

\* save_manager_load: whether the blob read from NVS is accepted
save_manager_load_ret(save) == save.version = SAVE_VERSION

\* save_manager_load: the pet p with the fields of the blob restored
save_manager_load(p, save) ==
    IF ~save_manager_load_ret(save) THEN p
    ELSE [p EXCEPT !.hunger = save.hunger,
                   !.happiness = save.happiness,
                   !.health = save.health,
                   !.energy = save.energy,
                   !.weight = save.weight,
                   !.discipline = save.discipline,
                   !.stage = save.stage,
                   !.age_minutes = save.age_minutes,
                   !.is_sick = save.is_sick # 0,
                   !.poop_count = save.poop_count,
                   !.has_poop = save.poop_count > 0,
                   !.is_sleeping = save.is_sleeping # 0,
                   !.games_won = save.games_won,
                   !.games_played = save.games_played,
                   !.times_fed = save.times_fed,
                   !.times_played = save.times_played,
                   !.times_cleaned = save.times_cleaned,
                   !.times_medicated = save.times_medicated]

\* save_manager_get_offline_minutes: without an RTC, always 0
save_manager_get_offline_minutes == 0

\* app_main, once save_manager_exists() has answered true: the load, the
\* offline catch-up and the button click that skips the splash
app_main_load(w, save, t, r) ==
    IF ~save_manager_load_ret(save) THEN w
    ELSE LET loaded == save_manager_load(w.pet, save)
             offline_min == save_manager_get_offline_minutes
             caught_up == IF offline_min > 0
                          THEN pet_apply_time_away(loaded, offline_min, t, r)
                          ELSE loaded
         IN  game_handle_input([w EXCEPT !.pet = caught_up],
                               BUTTON_RIGHT, BUTTON_EVENT_CLICK, t, r)

\* SpecBoot: the pets whose saves are found at boot: a Baby just hatched, the
\* same fed a fish and played with, one an hour older, asleep, one left
\* alone for days; and the last save under a version this firmware rejects
HatchedPet == pet_update(pet_new(BootMs), EGG_DURATION_MIN * 60000, BootMs, 0)
CaredForPet ==
    pet_play_complete(
        pet_play_start(pet_feed(HatchedPet, FOOD_FISH, BootMs), BootMs), TRUE)
SleepingPet ==
    pet_update(pet_sleep(pet_play_complete(pet_play_start(CaredForPet, BootMs),
                                           FALSE), BootMs),
               60000, BootMs + ClockStepMs, 0)
NeglectedPet ==
    pet_update(pet_update(HatchedPet, BABY_DURATION_MIN * 60000,
                          BootMs + ClockStepMs, 0),
               60000, BootMs + 2 * ClockStepMs, 0)
BootSaves ==
    << save_data(HatchedPet), save_data(CaredForPet), save_data(SleepingPet),
       save_data(NeglectedPet),
       [save_data(NeglectedPet) EXCEPT !.version = SAVE_VERSION + 1] >>

\* app_main finds a save at boot, before game_task and the buttons run
AppMainLoad ==
    \E i \in 1..Len(BootSaves), r \in RandomDraws :
        LET w == app_main_load(world, BootSaves[i], now, r)
        IN  /\ op.name = "game_init"
            /\ s_pet' = w.pet
            /\ s_game' = w.mg
            /\ ui' = w.ui
            /\ op' = [name |-> "app_main", arg |-> i]
            /\ ret' = save_manager_load_ret(BootSaves[i])
            /\ UNCHANGED now

NextBoot ==
    \/ AppMainLoad
    \/ GameFrame
    \/ GameInput

SpecBoot == InitUI /\ [][NextBoot]_vars

----------------------------------------------------------------------------
(* Properties *)

HealthZeroIsTerminal ==
    [][(/\ s_pet.stage # PET_STAGE_EGG
        /\ s_pet.health = 0
        /\ op'.name # "pet_new")
       => /\ s_pet'.health = 0
          /\ (op'.name = "pet_update" /\ op'.arg >= 60000
                => s_pet'.stage = PET_STAGE_DEAD)]_vars

\* C3: pet_update on a Dead pet, whatever the elapsed duration, leaves every
\* field of the pet as it was
DeadPetNotAdvanced ==
    [][(s_pet.stage = PET_STAGE_DEAD /\ op'.name = "pet_update")
       => s_pet' = s_pet]_vars

\* pet_update has been called with a sub-minute duration, which cannot kill,
\* and the pet is Dead: it was Dead when the call was made
DeadPetWasAdvanced ==
    /\ s_pet.stage = PET_STAGE_DEAD
    /\ op.name = "pet_update"
    /\ op.arg = 900

\* C4: pet_feed, pet_play_start, pet_sleep, pet_clean and pet_give_medicine
\* return false and change nothing whenever the stage is Dead or Egg
ActionsRejectedOnDeadOrEgg ==
    [][(/\ op'.name \in {"pet_feed", "pet_play_start", "pet_sleep",
                         "pet_clean", "pet_give_medicine"}
        /\ s_pet.stage \in {PET_STAGE_DEAD, PET_STAGE_EGG})
       => (ret' = FALSE /\ s_pet' = s_pet)]_vars

\* the latest tick of a round before which a click is tried
MaxJumpTick == 60

\* the ticks within which a round has ended: the wave has passed the dolphin
\* after (WAVE_START_X + WAVE_W - DOLPHIN_X) / 3 = 78 ticks at the lowest speed
MaxRoundTicks == 128

\* the mini-game g after at most n ticks of the game loop, every GAME_TICK_MS
\* from clock reading t on, that find the round still being played, one
\* click being delivered just before the j-th of these ticks; the ticks are
\* taken half by half
RECURSIVE round_ticks(_, _, _, _)
round_ticks(g, j, t, n) ==
    IF n = 0 \/ g.state # MINIGAME_STATE_PLAYING THEN g
    ELSE IF n = 1
    THEN minigame_update(
             IF j = 1
             THEN minigame_handle_input(g, BUTTON_RIGHT, BUTTON_EVENT_CLICK)
             ELSE g,
             t + GAME_TICK_MS, 0)
    ELSE LET k == n \div 2
         IN  round_ticks(round_ticks(g, j, t, k),
                         j - k, t + k * GAME_TICK_MS, n - k)

\* the mini-game as the round played in g ends, when the game loop ticks it
\* every GAME_TICK_MS from clock reading t on and one click is delivered just
\* before the j-th of these ticks
play_round(g, j, t) == round_ticks(g, j, t, MaxRoundTicks)

\* C5: for every wave speed, at the start of a round there is a tick at
\* which a jump of the grounded dolphin makes the round end in Success
SomeJumpClearsWave ==
    (/\ s_game.state = MINIGAME_STATE_PLAYING
     /\ s_game.wave_x = WAVE_START_X
     /\ ~s_game.is_jumping)
    => \E j \in 1..MaxJumpTick :
          play_round(s_game, j, now).state = MINIGAME_STATE_SUCCESS

\* C6: once a round has ended in Success or Fail and the result has been
\* displayed for more than RESULT_DISPLAY_MS, minigame_update starts the next
\* round with a speed in 3..5 while rounds remain, and after the last round
\* returns false
SessionPlaysAllRounds ==
    [][(/\ op'.name = "minigame_update"
        /\ s_game.state \in {MINIGAME_STATE_SUCCESS, MINIGAME_STATE_FAIL}
        /\ now' - s_game.result_time_ms > RESULT_DISPLAY_MS)
       => IF s_game.round < s_game.max_rounds
          THEN /\ ret' = TRUE
               /\ s_game'.state = MINIGAME_STATE_PLAYING
               /\ s_game'.round = s_game.round + 1
               /\ s_game'.wave_speed \in 3..5
          ELSE ret' = FALSE]_vars

\* on the Play screen, were the mini-game to report completion with s
\* successes and f failures, game_update would call pet_play_complete once
\* with won = (s > f) and show Main
CompletionForwarded ==
    ui.s_state = GAME_STATE_PLAY =>
        \A s \in 0..MAX_ROUNDS, f \in 0..MAX_ROUNDS :
            LET g == [s_game EXCEPT !.state = MINIGAME_STATE_RESULTS,
                                    !.round = s_game.max_rounds,
                                    !.successes = s, !.failures = f,
                                    !.result_time_ms = now - RESULT_DISPLAY_MS]
                w == game_update([world EXCEPT !.mg = g],
                                 GAME_TICK_MS, now + GAME_TICK_MS, 0)
            IN  /\ ~minigame_update_ret(g, now + GAME_TICK_MS)
                /\ w.ui.s_state = GAME_STATE_MAIN
                /\ w.pet = pet_play_complete(s_pet, s > f)

OfflineTimeCapped ==
    \A a \in AwayMinutes, r \in RandomDraws :
        a > 2880 =>
            pet_apply_time_away(s_pet, a, now, r)
                = pet_apply_time_away(s_pet, 2880, now, r)

\* a hatched pet has been away for 10000 minutes and has aged by 2880
OfflineCapApplied ==
    /\ op.name = "pet_apply_time_away"
    /\ op.arg = 10000
    /\ s_pet.stage # PET_STAGE_EGG
    /\ s_pet.age_minutes \in (2880 + EGG_DURATION_MIN)..(2880 + MaxAgeMin)

\* the mood the stats and flags of p determine, by priority
MoodOf(p) ==
    IF p.is_sleeping THEN PET_MOOD_SLEEPING
    ELSE IF p.is_sick THEN PET_MOOD_SICK
    ELSE IF p.hunger < 20 THEN PET_MOOD_HUNGRY
    ELSE IF p.energy < 20 THEN PET_MOOD_SLEEPY
    ELSE IF p.happiness < 20 THEN PET_MOOD_SAD
    ELSE IF p.happiness >= 80 /\ p.hunger >= 60 /\ p.health >= 70
    THEN PET_MOOD_HAPPY
    ELSE PET_MOOD_NORMAL

\* whether the stats and flags of p call for attention
AttentionOf(p) ==
    \/ p.hunger < 20 \/ p.happiness < 20 \/ p.health < 20 \/ p.energy < 20
    \/ p.has_poop \/ p.is_sick

\* what pet_update(0) on a living pet leaves alone and what it recomputes,
\* the last-update timer aside
AdvanceZeroEffect ==
    /\ s_pet'.games_won = s_pet.games_won
    /\ s_pet'.games_played = s_pet.games_played
    /\ s_pet'.times_fed = s_pet.times_fed
    /\ s_pet'.times_played = s_pet.times_played
    /\ s_pet'.times_cleaned = s_pet.times_cleaned
    /\ s_pet'.times_medicated = s_pet.times_medicated
    /\ s_pet'.last_fed_ms = s_pet.last_fed_ms
    /\ s_pet'.last_played_ms = s_pet.last_played_ms
    /\ s_pet'.last_poop_ms = s_pet.last_poop_ms
    /\ s_pet'.sleep_start_ms = s_pet.sleep_start_ms
    /\ s_pet'.mood = MoodOf(s_pet)
    /\ s_pet'.attention_needed = AttentionOf(s_pet)

\* C9 as stated: pet_update(0) on a living pet changes no counter and no
\* timer, the last-update timer included, and sets mood and attention_needed
\* to what the current stats and flags determine
AdvanceZeroKeepsAllTimers ==
    [][(/\ op'.name = "pet_update" /\ op'.arg = 0
        /\ s_pet.stage # PET_STAGE_DEAD)
       => (AdvanceZeroEffect /\ s_pet'.last_update_ms = s_pet.last_update_ms)]_vars

\* C9: pet_update(0) on a living pet changes no counter and no timer other
\* than the last-update timer, which it sets to the current clock reading,
\* and sets mood and attention_needed to what the current stats and flags
\* determine
AdvanceZeroKeepsOtherTimers ==
    [][(/\ op'.name = "pet_update" /\ op'.arg = 0
        /\ s_pet.stage # PET_STAGE_DEAD)
       => (AdvanceZeroEffect /\ s_pet'.last_update_ms = now')]_vars

\* pet_update(0) has been called on a living pet after the clock moved on
AdvanceZeroAfterClockMoved ==
    /\ op.name = "pet_update"
    /\ op.arg = 0
    /\ s_pet.stage # PET_STAGE_DEAD
    /\ now > BootMs
    /\ s_pet.last_update_ms = now

\* C10: a pet_update covering m >= 1 whole minutes on a hatched, living pet
\* leaves hunger at max(0, hunger - 2*m), or max(0, hunger - 4*m) when sick,
\* happiness at max(0, happiness - m), and energy at max(0, energy - m) when
\* awake or min(100, energy + 5*m) when asleep
DecayFollowsFormulas ==
    [][(/\ op'.name = "pet_update" /\ op'.arg >= 60000
        /\ s_pet.stage \notin {PET_STAGE_EGG, PET_STAGE_DEAD})
       => LET m == op'.arg \div 60000
              max0(x) == IF x < 0 THEN 0 ELSE x
              min100(x) == IF x > 100 THEN 100 ELSE x
          IN  /\ s_pet'.hunger =
                     max0(s_pet.hunger - (IF s_pet.is_sick THEN 4 ELSE 2) * m)
              /\ s_pet'.happiness = max0(s_pet.happiness - m)
              /\ s_pet'.energy = IF s_pet.is_sleeping
                                 THEN min100(s_pet.energy + 5 * m)
                                 ELSE max0(s_pet.energy - m)]_vars

\* the stage an age in minutes calls for: hatching after 2 minutes, Child
\* after 2 days, Teen after 6 days, Adult after 13 days
StageForAge(a) ==
    IF a < 2 THEN PET_STAGE_EGG
    ELSE IF a < 2 * 1440 THEN PET_STAGE_BABY
    ELSE IF a < 6 * 1440 THEN PET_STAGE_CHILD
    ELSE IF a < 13 * 1440 THEN PET_STAGE_TEEN
    ELSE PET_STAGE_ADULT

\* C11: a living pet whose stage is below the stage its age calls for,
\* however far below, is promoted by exactly one stage by every pet_update
\* of at least one minute that it survives, so that it passes through
\* Baby, Child and Teen in order and reaches Adult
NeglectedPetCatchesUp ==
    [][(/\ op'.name = "pet_update" /\ op'.arg >= 60000
        /\ s_pet.stage # PET_STAGE_DEAD
        /\ s_pet'.stage # PET_STAGE_DEAD
        /\ s_pet.stage < StageForAge(s_pet'.age_minutes))
       => s_pet'.stage = s_pet.stage + 1]_vars

\* C12: no call other than pet_new moves the stage backward in the order
\* Egg < Baby < Child < Teen < Adult, one call promotes by at most one
\* stage, and a Dead pet stays Dead
StageMonotonic ==
    [][op'.name # "pet_new" =>
        IF s_pet.stage = PET_STAGE_DEAD
        THEN s_pet'.stage = PET_STAGE_DEAD
        ELSE s_pet'.stage \in {s_pet.stage, s_pet.stage + 1, PET_STAGE_DEAD}]_vars

\* a pet has been promoted stage by stage, by one pet_update after another,
\* to Adult
GrownToAdult ==
    /\ s_pet.stage = PET_STAGE_ADULT
    /\ op.name = "pet_update"

\* C13: after every pet_update on a pet that was alive when it was called,
\* sub-minute calls included, mood is the first matching of: Sleeping if
\* asleep, Sick if sick, Hungry if hunger < 20, Sleepy if energy < 20, Sad
\* if happiness < 20, Happy if happiness >= 80 and hunger >= 60 and
\* health >= 70, else Normal; and update_mood picks the same rule whatever
\* the two flags are
MoodFollowsPriority ==
    /\ [](\A sleeping \in BOOLEAN, sick \in BOOLEAN :
            LET p == [s_pet EXCEPT !.is_sleeping = sleeping, !.is_sick = sick]
            IN  update_mood(p).mood = MoodOf(p))
    /\ [][(op'.name = "pet_update" /\ s_pet.stage # PET_STAGE_DEAD)
          => s_pet'.mood = MoodOf(s_pet')]_vars

\* a pet fed into high spirits has been advanced and its mood, Normal since
\* pet_new, is Happy
MoodBecameHappy ==
    /\ op.name = "pet_update"
    /\ s_pet.mood = PET_MOOD_HAPPY
    /\ s_pet.happiness >= 80

NewPetHasStartingValues ==
    op.name = "pet_new" =>
        /\ s_pet.stage = PET_STAGE_EGG
        /\ s_pet.age_minutes = 0
        /\ s_pet.hunger = 50
        /\ s_pet.happiness = 50
        /\ s_pet.health = 100
        /\ s_pet.energy = 100
        /\ s_pet.weight = 20
        /\ ~s_pet.is_sick
        /\ ~s_pet.is_sleeping
        /\ ~s_pet.has_poop
        /\ s_pet.poop_count = 0
        /\ s_pet.games_won = 0
        /\ s_pet.games_played = 0
        /\ s_pet.times_fed = 0
        /\ s_pet.times_played = 0
        /\ s_pet.times_cleaned = 0
        /\ s_pet.times_medicated = 0

\* pet_new has been called again at a later reading of the clock than the
\* one the first pet was created at
PetReplacedLater ==
    /\ op.name = "pet_new"
    /\ now > BootMs
    /\ s_pet.last_fed_ms = now

\* the screen a confirmed menu item leads to, Play included, whatever the pet
MenuTarget(sel) ==
    CASE sel = MENU_FEED     -> GAME_STATE_FEED
      [] sel = MENU_PLAY     -> GAME_STATE_PLAY
      [] sel = MENU_CLEAN    -> GAME_STATE_MAIN
      [] sel = MENU_MEDICINE -> GAME_STATE_MAIN
      [] sel = MENU_STATS    -> GAME_STATE_STATS
      [] sel = MENU_SETTINGS -> GAME_STATE_MAIN

\* C16 as stated: on the Menu screen a long press of the right button leads
\* from Feed to Feed, from Play to Play, from Sleep to Sleep or Main as the
\* pet is asleep or not afterwards, and to Main, Main, Stats, Main for the
\* rest; a long press of the left button leads to Main and leaves the pet
MenuConfirmAlwaysMoves ==
    ui.s_state = GAME_STATE_MENU =>
        \A r \in SpeedDraws :
            LET sel == ui.s_menu_selection
                c == game_handle_input(world, BUTTON_RIGHT,
                                       BUTTON_EVENT_LONG_PRESS, now, r)
                b == game_handle_input(world, BUTTON_LEFT,
                                       BUTTON_EVENT_LONG_PRESS, now, r)
            IN  /\ c.ui.s_state =
                     IF sel = MENU_SLEEP
                     THEN (IF c.pet.is_sleeping THEN GAME_STATE_SLEEP
                           ELSE GAME_STATE_MAIN)
                     ELSE MenuTarget(sel)
                /\ b.ui.s_state = GAME_STATE_MAIN
                /\ b.pet = s_pet

\* C16: the same with the Play item leading to Play only when the pet is
\* hatched, alive, awake and has energy 20 or more, the screen staying Menu
\* and nothing changing otherwise; each item calls its own pet operation
\* (Feed, Stats and Settings none) and Play starts the mini-game
MenuConfirmDispatches ==
    ui.s_state = GAME_STATE_MENU =>
        \A r \in SpeedDraws :
            LET sel == ui.s_menu_selection
                c == game_handle_input(world, BUTTON_RIGHT,
                                       BUTTON_EVENT_LONG_PRESS, now, r)
                b == game_handle_input(world, BUTTON_LEFT,
                                       BUTTON_EVENT_LONG_PRESS, now, r)
                playable == /\ s_pet.stage \notin {PET_STAGE_EGG, PET_STAGE_DEAD}
                            /\ ~s_pet.is_sleeping
                            /\ s_pet.energy >= 20
            IN  /\ sel = MENU_PLAY /\ ~playable => c = world
                /\ sel = MENU_PLAY /\ playable =>
                     /\ c.ui.s_state = GAME_STATE_PLAY
                     /\ c.pet = pet_play_start(s_pet, now)
                     /\ c.mg = minigame_start(now, r)
                /\ sel = MENU_SLEEP =>
                     /\ c.pet = pet_toggle_sleep(s_pet, now)
                     /\ c.ui.s_state = IF c.pet.is_sleeping THEN GAME_STATE_SLEEP
                                       ELSE GAME_STATE_MAIN
                /\ sel \notin {MENU_PLAY, MENU_SLEEP} =>
                     /\ c.ui.s_state = MenuTarget(sel)
                     /\ c.pet = CASE sel = MENU_CLEAN    -> pet_clean(s_pet)
                                  [] sel = MENU_MEDICINE -> pet_give_medicine(s_pet)
                                  [] OTHER               -> s_pet
                /\ b.ui.s_state = GAME_STATE_MAIN
                /\ b.pet = s_pet
                /\ b.mg = s_game

\* the Play item has been confirmed for a pet able to play: the screen is
\* Play and the game is counted as played
PlayConfirmedFromMenu ==
    /\ op.name = "game_handle_input"
    /\ op.arg = BUTTON_EVENT_LONG_PRESS
    /\ ui.s_state = GAME_STATE_PLAY
    /\ s_pet.games_played = 1

\* the world after n clicks of one button, with no frame in between
RECURSIVE click_times(_, _, _)
click_times(w, button, n) ==
    IF n = 0 THEN w
    ELSE click_times(game_handle_input(w, button, BUTTON_EVENT_CLICK, now, 0),
                     button, n - 1)

\* C17: the Menu cursor stays in 0..6 and the Feed cursor in 0..2; on the
\* Menu screen a click of the left button moves the cursor forward by one
\* modulo 7 and a click of the right button back by one modulo 7, on the
\* Feed screen the same modulo 3; a step one way and a step the other
\* restore the cursor, and 7 (3) steps one way return it to where it was
CursorCyclesInRange ==
    /\ ui.s_menu_selection \in 0..6
    /\ ui.s_food_selection \in 0..2
    /\ ui.s_state = GAME_STATE_MENU =>
         LET sel == ui.s_menu_selection
             fwd == click_times(world, BUTTON_LEFT, 1)
             back == click_times(world, BUTTON_RIGHT, 1)
         IN  /\ fwd.ui.s_menu_selection = (sel + 1) % 7
             /\ back.ui.s_menu_selection = (sel + 6) % 7
             /\ fwd.ui.s_state = GAME_STATE_MENU
             /\ back.ui.s_state = GAME_STATE_MENU
             /\ click_times(fwd, BUTTON_RIGHT, 1).ui.s_menu_selection = sel
             /\ click_times(back, BUTTON_LEFT, 1).ui.s_menu_selection = sel
             /\ click_times(world, BUTTON_LEFT, 7).ui.s_menu_selection = sel
             /\ click_times(world, BUTTON_RIGHT, 7).ui.s_menu_selection = sel
    /\ ui.s_state = GAME_STATE_FEED =>
         LET sel == ui.s_food_selection
             fwd == click_times(world, BUTTON_LEFT, 1)
             back == click_times(world, BUTTON_RIGHT, 1)
         IN  /\ fwd.ui.s_food_selection = (sel + 1) % 3
             /\ back.ui.s_food_selection = (sel + 2) % 3
             /\ fwd.ui.s_state = GAME_STATE_FEED
             /\ back.ui.s_state = GAME_STATE_FEED
             /\ click_times(fwd, BUTTON_RIGHT, 1).ui.s_food_selection = sel
             /\ click_times(back, BUTTON_LEFT, 1).ui.s_food_selection = sel
             /\ click_times(world, BUTTON_LEFT, 3).ui.s_food_selection = sel
             /\ click_times(world, BUTTON_RIGHT, 3).ui.s_food_selection = sel

\* a click on the Feed screen has left the cursor on the last of the three
\* entries
FeedCursorOnLastEntry ==
    /\ op.name = "game_handle_input"
    /\ op.arg = BUTTON_EVENT_CLICK
    /\ ui.s_state = GAME_STATE_FEED
    /\ ui.s_food_selection = FOOD_MENU_COUNT - 1

\* C18: a game_update on the Main, Menu, Feed or Stats screen advances the
\* pet by the elapsed time it was given, and leaves the screen Death if the
\* pet is Dead afterwards and as it was if not
DeadPetLeadsToDeathScreen ==
    [][(/\ op'.name = "game_update"
        /\ ui.s_state \in {GAME_STATE_MAIN, GAME_STATE_MENU,
                           GAME_STATE_FEED, GAME_STATE_STATS})
       => /\ \E r \in RandomDraws :
                s_pet' = pet_update(s_pet, op'.arg, now', r)
          /\ ui'.s_state = IF s_pet'.stage = PET_STAGE_DEAD
                           THEN GAME_STATE_DEATH
                           ELSE ui.s_state]_vars

\* the pet has died during a game_update on a screen reached through the
\* menu, and the screen is Death
DiedBehindTheMenu ==
    /\ op.name = "game_update"
    /\ s_pet.stage = PET_STAGE_DEAD
    /\ ui.s_state = GAME_STATE_DEATH
    /\ ui.s_menu_active

\* C19: game_init leaves the screen Splash; on the Splash and on the Death
\* screen a click or a long press of either button leaves a new pet (an Egg
\* of age 0 with the starting stats and all counters 0) and the Main screen,
\* the menu cursor and the scroll offset 0 and the menu inactive
AnyButtonStartsNewGame ==
    /\ [](op.name = "game_init" => ui.s_state = GAME_STATE_SPLASH)
    /\ [][(/\ op'.name = "game_handle_input"
           /\ op'.arg \in {BUTTON_EVENT_CLICK, BUTTON_EVENT_LONG_PRESS}
           /\ ui.s_state \in {GAME_STATE_SPLASH, GAME_STATE_DEATH})
          => /\ ui'.s_state = GAME_STATE_MAIN
             /\ ui'.s_menu_selection = 0
             /\ ui'.s_menu_scroll_offset = 0
             /\ ~ui'.s_menu_active
             /\ s_pet'.stage = PET_STAGE_EGG
             /\ s_pet'.age_minutes = 0
             /\ s_pet'.hunger = 50
             /\ s_pet'.happiness = 50
             /\ s_pet'.health = 100
             /\ s_pet'.energy = 100
             /\ s_pet'.weight = 20
             /\ ~s_pet'.is_sick
             /\ ~s_pet'.is_sleeping
             /\ s_pet'.poop_count = 0
             /\ counters(s_pet') = 0]_vars

\* a button event on the Death screen has replaced the dead pet: the new Egg
\* dates from after the last iteration in which the other screens take events
NewGameAfterDeath ==
    /\ op.name = "game_handle_input"
    /\ ui.s_state = GAME_STATE_MAIN
    /\ s_pet.stage = PET_STAGE_EGG
    /\ s_pet.last_update_ms > BootMs + MaxNeglectInputFrames * NeglectFrameMs

\* C20: on the Sleep screen a click or a long press of the right button wakes
\* the pet and leads to Main, no event of the left button changes anything,
\* and a game_update that leaves the pet awake leaves the screen Main
SleepScreenWakes ==
    /\ [](ui.s_state = GAME_STATE_SLEEP =>
            /\ \A event \in {BUTTON_EVENT_CLICK, BUTTON_EVENT_LONG_PRESS} :
                 LET w == game_handle_input(world, BUTTON_RIGHT, event, now, 0)
                 IN  /\ ~w.pet.is_sleeping
                     /\ w.pet = pet_wake(s_pet)
                     /\ w.ui.s_state = GAME_STATE_MAIN
            /\ \A event \in ButtonEvents :
                 game_handle_input(world, BUTTON_LEFT, event, now, 0) = world)
    /\ [][(/\ op'.name = "game_update"
           /\ ui.s_state = GAME_STATE_SLEEP
           /\ ~s_pet'.is_sleeping)
          => ui'.s_state = GAME_STATE_MAIN]_vars

\* a game_update has woken the sleeping pet at full energy and entered Main:
\* no game has been played, so the Main screen was not entered from Play
WokeUpRested ==
    /\ op.name = "game_update"
    /\ ui.s_state = GAME_STATE_MAIN
    /\ ui.s_state_time_ms = now
    /\ s_pet.times_played = 0
    /\ s_pet.energy = 100
    /\ ~s_pet.is_sleeping

\* the ten screens of game_state_t
GameStates == GAME_STATE_SPLASH .. GAME_STATE_NEW_GAME

\* C21: a Pressed, Released or Repeat event of either button changes nothing:
\* every such call leaves the pet, the mini-game and the screen state with its
\* cursors as they were, and would do so on each of the screens
OtherEventsIgnored ==
    /\ [](\A button \in Buttons,
             event \in {BUTTON_EVENT_PRESSED, BUTTON_EVENT_RELEASED,
                        BUTTON_EVENT_REPEAT},
             st \in GameStates :
             LET w == [world EXCEPT !.ui.s_state = st]
             IN  game_handle_input(w, button, event, now, 0) = w)
    /\ [][(/\ op'.name = "game_handle_input"
           /\ op'.arg \in {BUTTON_EVENT_PRESSED, BUTTON_EVENT_RELEASED,
                           BUTTON_EVENT_REPEAT})
          => UNCHANGED <<s_pet, s_game, ui>>]_vars

\* a Repeat event has been delivered on the Play screen while the mini-game
\* was running
RepeatOnPlayScreen ==
    /\ op.name = "game_handle_input"
    /\ op.arg = BUTTON_EVENT_REPEAT
    /\ ui.s_state = GAME_STATE_PLAY
    /\ s_game.state = MINIGAME_STATE_PLAYING

\* C22: no call other than pet_new lowers one of the six counters; a call
\* leaves each counter as it was or raises it by one, and raises only the
\* counters of its own operation
CountersOnlyGrow ==
    [][op'.name # "pet_new" =>
        /\ \A c \in {"games_won", "games_played", "times_fed", "times_played",
                     "times_cleaned", "times_medicated"} :
              s_pet'[c] \in {s_pet[c], s_pet[c] + 1}
        /\ s_pet'.times_fed # s_pet.times_fed => op'.name = "pet_feed"
        /\ s_pet'.games_played # s_pet.games_played => op'.name = "pet_play_start"
        /\ s_pet'.games_won # s_pet.games_won => op'.name = "pet_play_complete"
        /\ s_pet'.times_played # s_pet.times_played => op'.name = "pet_play_complete"
        /\ s_pet'.times_cleaned # s_pet.times_cleaned => op'.name = "pet_clean"
        /\ s_pet'.times_medicated # s_pet.times_medicated
              => op'.name = "pet_give_medicine"]_vars

\* C23: a pet_feed, pet_play_start, pet_sleep, pet_wake, pet_clean or
\* pet_give_medicine call that returns false leaves every field of the pet as
\* it was
RejectedCallChangesNothing ==
    [][(/\ op'.name \in {"pet_feed", "pet_play_start", "pet_sleep", "pet_wake",
                         "pet_clean", "pet_give_medicine"}
        /\ ret' = FALSE)
       => s_pet' = s_pet]_vars

\* pet_play_start has been refused to a hatched, awake pet for want of energy
PlayRefusedWhenTired ==
    /\ op.name = "pet_play_start"
    /\ ret = FALSE
    /\ s_pet.stage = PET_STAGE_BABY
    /\ ~s_pet.is_sleeping
    /\ s_pet.energy < PLAY_MIN_ENERGY

\* C24: pet_clean returns false exactly when has_poop is false; when it
\* returns true it has cleared has_poop, set poop_count to 0 whatever it was,
\* added one to times_cleaned and left hunger, happiness, health and energy
CleanClearsAllWaste ==
    [][op'.name = "pet_clean" =>
        /\ ret' = s_pet.has_poop
        /\ ret' = TRUE =>
             /\ ~s_pet'.has_poop
             /\ s_pet'.poop_count = 0
             /\ s_pet'.times_cleaned = s_pet.times_cleaned + 1
             /\ s_pet'.hunger = s_pet.hunger
             /\ s_pet'.happiness = s_pet.happiness
             /\ s_pet'.health = s_pet.health
             /\ s_pet'.energy = s_pet.energy]_vars

\* a living pet that had lost health to its waste has been cleaned
CleanedAfterWasteTookHealth ==
    /\ op.name = "pet_clean"
    /\ ret = TRUE
    /\ s_pet.stage = PET_STAGE_BABY
    /\ s_pet.poop_count = 0
    /\ s_pet.health < 95

\* health values given to a sick pet to see what pet_update and
\* pet_give_medicine make of them
SickHealthSamples == {0, 29, 30, 60, 61, 100}

\* C25: is_sick, once set, is cleared by no pet_update, whatever health is,
\* but only by a pet_give_medicine that returns true or by pet_new;
\* pet_give_medicine returns true exactly when is_sick is set, and has then
\* added 40 to health, up to 100, cleared is_sick and added one to
\* times_medicated
SickUntilMedicated ==
    /\ [](\A h \in SickHealthSamples :
            LET p == [s_pet EXCEPT !.is_sick = TRUE, !.health = h]
            IN  /\ \A d \in {0, 60000}, r \in RandomDraws :
                      pet_update(p, d, now, r).is_sick
                /\ pet_give_medicine(p).health = IF h + 40 > 100 THEN 100 ELSE h + 40)
    /\ [][/\ (s_pet.is_sick /\ ~s_pet'.is_sick)
                => \/ op'.name = "pet_give_medicine" /\ ret' = TRUE
                   \/ op'.name = "pet_new"
          /\ op'.name = "pet_give_medicine"
                => /\ ret' = s_pet.is_sick
                   /\ ret' = TRUE
                        => /\ s_pet'.health = IF s_pet.health + 40 > 100 THEN 100
                                              ELSE s_pet.health + 40
                           /\ ~s_pet'.is_sick
                           /\ s_pet'.times_medicated = s_pet.times_medicated + 1]_vars

\* a living pet that was sick has been given medicine and advanced a minute
\* since, without falling sick again
MedicatedAndWell ==
    /\ op.name = "pet_update"
    /\ op.arg = 60000
    /\ s_pet.stage = PET_STAGE_BABY
    /\ s_pet.times_medicated = 1
    /\ ~s_pet.is_sick

\* C26: pet_play_start returns what pet_can_play returns just before it,
\* that is true exactly for a pet with energy 20 or more that is neither Egg
\* nor Dead nor asleep; when it returns true it has set the activity to
\* Playing, added one to games_played and left hunger, happiness, health and
\* energy
PlayStartIffCanPlay ==
    /\ [](\A e \in {0, 19, 20, 21, 100},
             st \in PET_STAGE_EGG .. PET_STAGE_DEAD,
             sl \in BOOLEAN :
             LET p == [s_pet EXCEPT !.energy = e, !.stage = st, !.is_sleeping = sl]
                 able == e >= 20 /\ st \notin {PET_STAGE_EGG, PET_STAGE_DEAD} /\ ~sl
             IN  /\ pet_can_play(p) = able
                 /\ pet_play_start_ret(p) = able)
    /\ [][op'.name = "pet_play_start" =>
            /\ ret' = pet_can_play(s_pet)
            /\ ret' = TRUE =>
                 /\ s_pet'.activity = PET_ACTIVITY_PLAYING
                 /\ s_pet'.games_played = s_pet.games_played + 1
                 /\ s_pet'.hunger = s_pet.hunger
                 /\ s_pet'.happiness = s_pet.happiness
                 /\ s_pet'.health = s_pet.health
                 /\ s_pet'.energy = s_pet.energy]_vars

\* a second game has been started right after the first was lost, on the
\* energy the first game left
PlayStartedAgain ==
    /\ op.name = "pet_play_start"
    /\ ret = TRUE
    /\ s_pet.activity = PET_ACTIVITY_PLAYING
    /\ s_pet.games_played = 2
    /\ s_pet.times_played = 1

ScoreIsWeightedAverage ==
    op.name = "pet_get_overall_happiness" =>
        LET sum == 25 * s_pet.hunger + 35 * s_pet.happiness
                   + 25 * s_pet.health + 15 * s_pet.energy
            all(v) == /\ s_pet.hunger = v /\ s_pet.happiness = v
                      /\ s_pet.health = v /\ s_pet.energy = v
        IN  /\ op.arg * 100 <= sum
            /\ sum < (op.arg + 1) * 100
            /\ op.arg \in 0..100
            /\ all(100) => op.arg = 100
            /\ all(0) => op.arg = 0

\* the score has been taken of stats whose weighted sum is no multiple of
\* 100 although each term alone is less than 100
ScoreRoundedDown ==
    /\ op.name = "pet_get_overall_happiness"
    /\ s_pet.hunger = 3
    /\ s_pet.happiness = 1
    /\ s_pet.health = 1
    /\ s_pet.energy = 1
    /\ op.arg = 1

\* C29: a round of any wave speed in which no click is delivered ends in
\* Fail and not in Success, counted as one failure, on a tick on which the
\* wave overlaps the dolphin's box and its trailing edge has not passed the
\* dolphin
RoundWithoutJumpFails ==
    (/\ s_game.state = MINIGAME_STATE_PLAYING
     /\ s_game.wave_x = WAVE_START_X
     /\ ~s_game.is_jumping)
    => LET g == play_round(s_game, 0, now)
       IN  /\ s_game.wave_speed \in 3..5
           /\ g.state = MINIGAME_STATE_FAIL
           /\ g.failures = s_game.failures + 1
           /\ g.successes = s_game.successes
           /\ g.dolphin_y = DOLPHIN_GROUND_Y
           /\ g.wave_x < DOLPHIN_X + DOLPHIN_W
           /\ g.wave_x + WAVE_W > DOLPHIN_X

\* a round at the highest wave speed has ended in Fail with the dolphin on
\* the ground, no jump under way
FailedOnTheGround ==
    /\ op.name = "minigame_update"
    /\ s_game.state = MINIGAME_STATE_FAIL
    /\ s_game.wave_speed = WAVE_SPEED_MAX
    /\ s_game.dolphin_y = DOLPHIN_GROUND_Y
    /\ ~s_game.is_jumping
    /\ s_game.dolphin_vy = 0

\* the longest sequence of button events and loop iterations tried on the
\* way back to the Main screen
MaxReturnSteps == 3

\* whether some sequence of at most n button events and loop iterations
\* takes the world w, at time t, to the Main screen
RECURSIVE leads_to_main(_, _, _)
leads_to_main(w, t, n) ==
    \/ w.ui.s_state = GAME_STATE_MAIN
    \/ /\ n > 0
       /\ \/ \E button \in Buttons, event \in ButtonEvents, r \in SpeedDraws :
               leads_to_main(game_handle_input(w, button, event, t, r),
                             t, n - 1)
          \/ \E d \in {GAME_TICK_MS, UiLongFrameMs} :
               \E r \in (IF w.ui.s_state = GAME_STATE_PLAY
                         THEN SpeedDraws ELSE RandomDraws) :
                 leads_to_main(game_render(game_update(w, d, t + d, r)),
                               t + d, n - 1)

\* the loop iterations given to a mini-game session to run to its end: three
\* rounds of at most 78 ticks at the lowest wave speed, each followed by the
\* result display of 46 ticks, fit
MaxSessionFrames == 400

\* the world w, at time t, after n loop iterations of GAME_TICK_MS with no
\* button pressed, the iterations stopping on the Main screen
RECURSIVE after_frames(_, _, _)
after_frames(w, t, n) ==
    IF n = 0 \/ w.ui.s_state = GAME_STATE_MAIN THEN w
    ELSE IF n = 1
    THEN game_render(game_update(w, GAME_TICK_MS, t + GAME_TICK_MS, 0))
    ELSE LET h == n \div 2
         IN  after_frames(after_frames(w, t, h), t + h * GAME_TICK_MS, n - h)

\* whether at most n loop iterations of GAME_TICK_MS, no button pressed, take
\* the world w, at time t, to the Main screen
frames_lead_to_main(w, t, n) ==
    after_frames(w, t, n).ui.s_state = GAME_STATE_MAIN

\* C30: from every reachable state of the UI, some sequence of button events
\* and loop iterations leads back to the Main screen
EveryScreenLeadsToMain ==
    \/ leads_to_main(world, now, MaxReturnSteps)
    \/ frames_lead_to_main(world, now, MaxSessionFrames)

\* from every reachable screen but Play some sequence of button events and
\* loop iterations leads back to the Main screen
OtherScreensLeadToMain ==
    ui.s_state # GAME_STATE_PLAY => leads_to_main(world, now, MaxReturnSteps)

\* no button event and no loop iteration leaves the Play screen
PlayIsNeverLeft ==
    [][ui.s_state = GAME_STATE_PLAY => ui'.s_state = GAME_STATE_PLAY]_vars

WasteEvent == s_pet'.poop_count # s_pet.poop_count

\* the pet_update steps of one minute or more
AdvanceByMinutes == op'.name = "pet_update" /\ op'.arg >= 60000

\* C32: no waste event fires less than POOP_INTERVAL_MIN minutes after the
\* last one, on a sleeping pet or on an egg; an event always fires once
\* POOP_INTERVAL_MAX minutes have passed and the pet is awake and hatched;
\* each event sets has_poop and adds one to poop_count
WasteRespectsRamp ==
    [][AdvanceByMinutes
       => /\ (\/ since_poop_min(s_pet, now) < POOP_INTERVAL_MIN
              \/ s_pet'.is_sleeping
              \/ s_pet.stage = PET_STAGE_EGG) => ~WasteEvent
          /\ (/\ since_poop_min(s_pet, now) >= POOP_INTERVAL_MAX
              /\ ~s_pet'.is_sleeping
              /\ s_pet.stage \notin {PET_STAGE_EGG, PET_STAGE_DEAD}) => WasteEvent
          /\ WasteEvent => /\ s_pet'.has_poop
                           /\ s_pet'.poop_count = s_pet.poop_count + 1]_vars

\* the same with the event certain only after more than POOP_INTERVAL_MAX
\* minutes
WasteCertainAfterRamp ==
    [][AdvanceByMinutes
       => /\ (\/ since_poop_min(s_pet, now) < POOP_INTERVAL_MIN
              \/ s_pet'.is_sleeping
              \/ s_pet.stage = PET_STAGE_EGG) => ~WasteEvent
          /\ (/\ since_poop_min(s_pet, now) > POOP_INTERVAL_MAX
              /\ ~s_pet'.is_sleeping
              /\ s_pet.stage \notin {PET_STAGE_EGG, PET_STAGE_DEAD}) => WasteEvent
          /\ WasteEvent => /\ s_pet'.has_poop
                           /\ s_pet'.poop_count = s_pet.poop_count + 1]_vars

\* C33: a pet_update call shorter than one minute, at whatever clock reading
\* and after however many such calls, leaves age, hunger, happiness, health,
\* energy, sickness, waste and stage unchanged
ShortAdvanceDropsTime ==
    [][(op'.name = "pet_update" /\ op'.arg < 60000)
       => /\ s_pet'.age_minutes = s_pet.age_minutes
          /\ s_pet'.hunger = s_pet.hunger
          /\ s_pet'.happiness = s_pet.happiness
          /\ s_pet'.health = s_pet.health
          /\ s_pet'.energy = s_pet.energy
          /\ s_pet'.is_sick = s_pet.is_sick
          /\ s_pet'.has_poop = s_pet.has_poop
          /\ s_pet'.poop_count = s_pet.poop_count
          /\ s_pet'.last_poop_ms = s_pet.last_poop_ms
          /\ s_pet'.stage = s_pet.stage]_vars

\* a hatched pet has been advanced by 900 ms two hours or more after the
\* last advance of a whole minute, its egg age and stats as they were
ShortAdvanceHoursLater ==
    /\ op.name = "pet_update"
    /\ op.arg = 900
    /\ now >= BootMs + 2 * ClockStepMs
    /\ s_pet.last_update_ms = now
    /\ s_pet.last_poop_ms = BootMs
    /\ s_pet.stage = PET_STAGE_BABY
    /\ s_pet.age_minutes = EGG_DURATION_MIN
    /\ s_pet.hunger = 50

\* C34: a pet_update call on an egg, of whatever duration and the hatching
\* call included, changes nothing but age_minutes, stage, mood,
\* attention_needed and the time stamp last_update_ms; hunger, happiness,
\* health, energy, is_sick and the waste fields are untouched
EggOnlyAges ==
    [][(op'.name = "pet_update" /\ s_pet.stage = PET_STAGE_EGG)
       => /\ s_pet'.hunger = s_pet.hunger
          /\ s_pet'.happiness = s_pet.happiness
          /\ s_pet'.health = s_pet.health
          /\ s_pet'.energy = s_pet.energy
          /\ s_pet'.is_sick = s_pet.is_sick
          /\ s_pet'.has_poop = s_pet.has_poop
          /\ s_pet'.poop_count = s_pet.poop_count
          /\ s_pet'.stage \in {PET_STAGE_EGG, PET_STAGE_BABY}
          /\ s_pet' = [s_pet EXCEPT !.age_minutes = s_pet'.age_minutes,
                                    !.stage = s_pet'.stage,
                                    !.mood = s_pet'.mood,
                                    !.attention_needed = s_pet'.attention_needed,
                                    !.last_update_ms = s_pet'.last_update_ms]]_vars

\* an egg has hatched in one call of 128 minutes, its stats as pet_new set
\* them
HatchedWithStartingStats ==
    /\ op.name = "pet_update"
    /\ op.arg = 128 * 60000
    /\ s_pet.stage = PET_STAGE_BABY
    /\ s_pet.age_minutes = 128
    /\ s_pet.hunger = 50
    /\ s_pet.happiness = 50
    /\ s_pet.health = 100
    /\ s_pet.energy = 100
    /\ ~s_pet.has_poop

\* the ticks a jump lasts: JUMP_VELOCITY is worked off by GRAVITY on the way
\* up and regained on the way down, and the last tick lands
JumpTicks == 2 * (0 - JUMP_VELOCITY) - 1

\* the mini-game g, at time t, after n further calls of minigame_update,
\* which leave a mini-game that was never started as it is
RECURSIVE after_ticks(_, _, _)
after_ticks(g, t, n) ==
    IF n = 0 \/ g.state = MINIGAME_STATE_READY THEN g
    ELSE IF n = 1 THEN minigame_update(g, t + GAME_TICK_MS, 0)
    ELSE LET k == n \div 2
         IN  after_ticks(after_ticks(g, t, k), t + k * GAME_TICK_MS, n - k)

\* a jump has just been started
JumpStarted ==
    /\ s_game.state = MINIGAME_STATE_PLAYING
    /\ s_game.is_jumping
    /\ s_game.dolphin_vy = JUMP_VELOCITY
    /\ s_game.dolphin_y = DOLPHIN_GROUND_Y

\* the dolphin is never below the ground, and on the ground at rest whenever
\* is_jumping is clear
DolphinAboveGround ==
    s_game.state # MINIGAME_STATE_READY
    => /\ s_game.dolphin_y <= DOLPHIN_GROUND_Y
       /\ ~s_game.is_jumping => /\ s_game.dolphin_y = DOLPHIN_GROUND_Y
                                /\ s_game.dolphin_vy = 0

\* a jump starts only on a click received while Playing and on the ground;
\* every other button event changes nothing; an airborne tick adds GRAVITY
\* to the velocity and then the velocity to the position, or lands
JumpSteps ==
    /\ (s_game'.is_jumping /\ ~s_game.is_jumping)
       => /\ op'.name = "minigame_handle_input"
          /\ op'.arg = BUTTON_EVENT_CLICK
          /\ s_game.state = MINIGAME_STATE_PLAYING
          /\ s_game' = [s_game EXCEPT !.is_jumping = TRUE,
                                      !.dolphin_vy = JUMP_VELOCITY]
    /\ (/\ op'.name = "minigame_handle_input"
        /\ \/ op'.arg # BUTTON_EVENT_CLICK
           \/ s_game.is_jumping
           \/ s_game.state # MINIGAME_STATE_PLAYING)
       => s_game' = s_game
    /\ (/\ op'.name = "minigame_update"
        /\ s_game.state = MINIGAME_STATE_PLAYING
        /\ s_game.is_jumping)
       => IF s_game.dolphin_y + s_game.dolphin_vy + GRAVITY >= DOLPHIN_GROUND_Y
          THEN /\ ~s_game'.is_jumping
               /\ s_game'.dolphin_y = DOLPHIN_GROUND_Y
               /\ s_game'.dolphin_vy = 0
          ELSE /\ s_game'.is_jumping
               /\ s_game'.dolphin_vy = s_game.dolphin_vy + GRAVITY
               /\ s_game'.dolphin_y = s_game.dolphin_y + s_game'.dolphin_vy

\* C35: a jump starts only on a click while Playing and grounded, other
\* clicks change nothing, each airborne tick adds GRAVITY to the velocity and
\* the velocity to the position, the dolphin is never below the ground and
\* rests on it whenever is_jumping is clear, and every jump has landed
\* JumpTicks ticks after its start
EveryJumpLands ==
    /\ [](DolphinAboveGround
          /\ (JumpStarted => ~after_ticks(s_game, now, JumpTicks).is_jumping))
    /\ [][JumpSteps]_vars

\* the same with the landing promised only to a jump whose round is still
\* being played JumpTicks ticks later; such a jump is airborne on every tick
\* before, and a jump cut short by the end of its round stays airborne for
\* as long as the mini-game is ticked
JumpLandsWhilePlaying ==
    /\ [](DolphinAboveGround
          /\ (JumpStarted
              => /\ after_ticks(s_game, now, JumpTicks - 1).is_jumping
                 /\ LET g == after_ticks(s_game, now, JumpTicks)
                    IN  IF g.is_jumping
                        THEN /\ g.state = MINIGAME_STATE_FAIL
                             /\ after_ticks(g, now, MaxJumpTick) = g
                        ELSE g.dolphin_y = DOLPHIN_GROUND_Y))
    /\ [][JumpSteps]_vars

\* the world after the Menu's selected item is confirmed
MenuConfirmed ==
    game_handle_input(world, BUTTON_RIGHT, BUTTON_EVENT_LONG_PRESS, now, 0)

\* the pet is asleep only while the screen is Sleep, so that the Menu and
\* Feed screens never act on a sleeping pet and the Menu's Sleep item never
\* wakes it
AsleepImpliesSleepScreen ==
    /\ s_pet.is_sleeping => ui.s_state = GAME_STATE_SLEEP
    /\ ui.s_state \in {GAME_STATE_MENU, GAME_STATE_FEED} => ~s_pet.is_sleeping
    /\ (ui.s_state = GAME_STATE_MENU /\ ui.s_menu_selection = MENU_SLEEP)
       => /\ MenuConfirmed.pet = pet_sleep(s_pet, now)
          /\ MenuConfirmed.ui.s_state =
                IF MenuConfirmed.pet.is_sleeping
                THEN GAME_STATE_SLEEP ELSE GAME_STATE_MAIN

\* C36: the pet is asleep only while the screen is Sleep, the Menu's Sleep
\* item never wakes it and always puts it to sleep, and feed and play are
\* never attempted on a sleeping pet
SleepItemAlwaysSleeps ==
    /\ AsleepImpliesSleepScreen
    /\ (ui.s_state = GAME_STATE_MENU /\ ui.s_menu_selection = MENU_SLEEP)
       => MenuConfirmed.pet.is_sleeping

\* C36, amended: the pet is asleep only while the screen is Sleep, the
\* Menu's Sleep item never wakes it and puts it to sleep unless it is an egg,
\* which stays awake and is shown on Main, and feed and play are never
\* attempted on a sleeping pet
SleepItemSleepsUnlessEgg ==
    /\ AsleepImpliesSleepScreen
    /\ (ui.s_state = GAME_STATE_MENU /\ ui.s_menu_selection = MENU_SLEEP)
       => /\ MenuConfirmed.pet.is_sleeping = (s_pet.stage # PET_STAGE_EGG)
          /\ s_pet.stage # PET_STAGE_DEAD

\* the Sleep item has been confirmed on a hatched pet: asleep, on Sleep
AsleepOnSleepScreen ==
    /\ op.name = "game_handle_input"
    /\ op.arg = BUTTON_EVENT_LONG_PRESS
    /\ ui.s_state = GAME_STATE_SLEEP
    /\ ui.s_menu_selection = MENU_SLEEP
    /\ s_pet.is_sleeping
    /\ s_pet.sleep_start_ms = now
    /\ s_pet.stage = PET_STAGE_BABY

\* the pet p shows what the blob holds
ShowsSave(p, save) ==
    /\ p.hunger = save.hunger
    /\ p.happiness = save.happiness
    /\ p.health = save.health
    /\ p.energy = save.energy
    /\ p.weight = save.weight
    /\ p.stage = save.stage
    /\ p.age_minutes = save.age_minutes
    /\ p.is_sick = (save.is_sick # 0)
    /\ p.poop_count = save.poop_count
    /\ p.is_sleeping = (save.is_sleeping # 0)
    /\ p.games_won = save.games_won
    /\ p.games_played = save.games_played
    /\ p.times_fed = save.times_fed
    /\ p.times_played = save.times_played
    /\ p.times_cleaned = save.times_cleaned
    /\ p.times_medicated = save.times_medicated

\* C37: when a saved game is found at boot and loads, the game enters Main
\* with the pet restored from the save: stats, stage, age and counters are
\* those loaded, not those of a fresh egg
SavedGameRestored ==
    [][(op'.name = "app_main" /\ ret')
       => /\ ui'.s_state = GAME_STATE_MAIN
          /\ ShowsSave(s_pet', BootSaves[op'.arg])]_vars

\* when a saved game is found at boot and loads, the game enters Main with a
\* pet made by pet_new; a save that does not load leaves the splash screen
\* and the zeroed pet of pet_init
SavedGameReplaced ==
    [][op'.name = "app_main"
       => IF ret'
          THEN /\ ui'.s_state = GAME_STATE_MAIN
               /\ s_pet' = pet_new(now)
               /\ ~ShowsSave(s_pet', BootSaves[op'.arg])
          ELSE /\ ui' = ui
               /\ s_pet' = s_pet]_vars

\* the loop iterations a dead pet is given to reach the Death screen
MaxDeathFrames == 3

\* the world w, at time t, after n loop iterations of GAME_TICK_MS with no
\* button pressed, the iterations stopping on the Death screen
RECURSIVE frames_alone(_, _, _)
frames_alone(w, t, n) ==
    IF n = 0 \/ w.ui.s_state = GAME_STATE_DEATH THEN w
    ELSE frames_alone(
             game_render(game_update(w, GAME_TICK_MS, t + GAME_TICK_MS, 0)),
             t + GAME_TICK_MS, n - 1)

\* C38: whenever the pet is Dead, loop iterations alone, no button pressed,
\* bring the UI to the Death screen, whichever of the Main, Menu, Feed, Stats
\* and Sleep screens it died on
FramesBringDeathScreen ==
    s_pet.stage = PET_STAGE_DEAD
    => frames_alone(world, now, MaxDeathFrames).ui.s_state = GAME_STATE_DEATH

\* a Dead pet that is not asleep is on the Death screen or, woken in its
\* last pet_update or by the right button, one loop iteration away from it;
\* a pet that died asleep is on the Sleep screen, and loop iterations leave
\* it there
DeathScreenUnlessAsleep ==
    s_pet.stage = PET_STAGE_DEAD
    => IF s_pet.is_sleeping
       THEN /\ ui.s_state = GAME_STATE_SLEEP
            /\ LET w == frames_alone(world, now, MaxDeathFrames)
               IN  /\ w.ui.s_state = GAME_STATE_SLEEP
                   /\ w.pet = s_pet
       ELSE /\ ui.s_state \in {GAME_STATE_DEATH, GAME_STATE_MAIN,
                               GAME_STATE_MENU, GAME_STATE_FEED,
                               GAME_STATE_STATS}
            /\ frames_alone(world, now, 1).ui.s_state = GAME_STATE_DEATH

\* C39: once minigame_start has run, 1 <= round <= max_rounds = 3 and
\* successes + failures <= round; a round adds one to exactly one of
\* successes and failures, once, on the tick on which it leaves Playing, and
\* no other step of a session changes either
RoundAccounting ==
    /\ [](s_game.state # MINIGAME_STATE_READY
          => /\ s_game.max_rounds = MAX_ROUNDS
             /\ s_game.round \in 1..s_game.max_rounds
             /\ s_game.successes + s_game.failures <= s_game.round
             /\ s_game.successes + s_game.failures
                  = IF s_game.state = MINIGAME_STATE_PLAYING
                    THEN s_game.round - 1 ELSE s_game.round)
    /\ [][op'.name \in {"minigame_update", "minigame_handle_input"}
          => IF /\ s_game.state = MINIGAME_STATE_PLAYING
                /\ s_game'.state # MINIGAME_STATE_PLAYING
             THEN /\ op'.name = "minigame_update"
                  /\ s_game'.round = s_game.round
                  /\ \/ /\ s_game'.state = MINIGAME_STATE_FAIL
                        /\ s_game'.failures = s_game.failures + 1
                        /\ s_game'.successes = s_game.successes
                     \/ /\ s_game'.state = MINIGAME_STATE_SUCCESS
                        /\ s_game'.successes = s_game.successes + 1
                        /\ s_game'.failures = s_game.failures
             ELSE /\ s_game'.successes = s_game.successes
                  /\ s_game'.failures = s_game.failures]_vars

\* the first round ended in Fail RESULT_DISPLAY_MS ago and more, and has
\* been counted once
FailureCountedOnce ==
    /\ op.name = "minigame_update"
    /\ s_game.state = MINIGAME_STATE_FAIL
    /\ now - s_game.result_time_ms > RESULT_DISPLAY_MS
    /\ s_game.round = 1
    /\ s_game.failures = 1
    /\ s_game.successes = 0

\* the target of calculate_health for a pet with hunger 0 and happiness 0,
\* no waste and no sickness
StarvedHealthFloor == 100 - (50 \div 2) - (40 \div 3)

\* C40: in a run from pet_new with no waste event and no overfeeding
\* penalty, health never drops below 62, the pet never becomes sick and
\* never dies, however long hunger and happiness stay at 0
StarvationAloneIsHarmless ==
    /\ StarvedHealthFloor = 62
    /\ s_pet.poop_count = 0
    /\ ~s_pet.has_poop
    /\ s_pet.health >= StarvedHealthFloor
    /\ ~s_pet.is_sick
    /\ s_pet.stage # PET_STAGE_DEAD
    /\ s_pet.mood # PET_MOOD_SICK

\* a pet at hunger 0 and happiness 0 has been advanced once more with its
\* health already down at the floor
StarvedAtTheFloor ==
    /\ op.name = "pet_update"
    /\ op.arg = 60000
    /\ s_pet.hunger = 0
    /\ s_pet.happiness = 0
    /\ s_pet.health = StarvedHealthFloor
    /\ s_pet.age_minutes >= MaxStarveAgeMin
    /\ s_pet.times_fed = 0

====
